---- MODULE Spec2Model ----
(***************************************************************************)
(* nsd-xfer: the AXFR client of NSD.  The process tries the servers of its *)
(* command line in turn; on the first connection it sends a SOA query,     *)
(* compares the serial (check_serial) and, when the zone is newer, sends   *)
(* an AXFR query and reads response packets until the closing SOA          *)
(* (handle_axfr_response / parse_response), verifying TSIG on the way      *)
(* (check_response_tsig).  error() logs and exits the process.             *)
(***************************************************************************)
EXTENDS Integers, Sequences, FiniteSets, TLC

----------------------------------------------------------------------------
(* Bounds of the model *)

NumServers == 2
MaxSerial == 2
MaxAnswers == 2
MaxRRs == 4
MaxRun == 103
MaxBody == 4
MaxKeyLen == 3
MaxKeys == 3
MaxAllocs == 4

(* Program constants *)

XFER_UPTODATE == 0
XFER_SUCCESS == 1
XFER_FAIL == 3
QHEADERSZ == 12
MaxUntagged == 100
SizeOctets == 2

NoExit == 0 - 1
PacketLimit == QHEADERSZ + 28
TsigPosition == QHEADERSZ + 18
QueryLength == QHEADERSZ + 9

Zone == "zone"
Owners == {Zone, "other"}
QueryIds == {1, 2}

----------------------------------------------------------------------------
(* Resource records as packet_read_rr returns them.  A record that        *)
(* packet_read_rr cannot parse has type "MALFORMED" (it returns NULL).     *)

RR(owner, type, klass, serial) ==
    [owner |-> owner, type |-> type, klass |-> klass, serial |-> serial]

Parses(record) == record.type # "MALFORMED"

Serials == 0 .. MaxSerial

(* Answer records of the SOA probe *)
ProbeRRs ==
    {RR(Zone, "SOA", "IN", s) : s \in Serials}
        \cup {RR("other", "SOA", "IN", MaxSerial), RR(Zone, "SOA", "CH", MaxSerial),
              RR(Zone, "A", "IN", 0), RR(Zone, "MALFORMED", "IN", 0)}

(* Answer records of the AXFR stream *)
AxfrRRs ==
    {RR(Zone, "SOA", "IN", 1), RR("other", "SOA", "IN", 1), RR(Zone, "SOA", "CH", 1),
     RR(Zone, "A", "IN", 0), RR(Zone, "NS", "IN", 0), RR(Zone, "MALFORMED", "IN", 0)}

SeqsUpTo(S, n) == UNION {[1 .. k -> S] : k \in 0 .. n}

----------------------------------------------------------------------------
(* TSIG engine (tsig.c).  A MAC is modelled by the exact sequence of byte   *)
(* ranges that were fed to the HMAC context: two MACs are equal exactly     *)
(* when the same ranges were digested in the same order.  A MAC that is     *)
(* digested as the previous MAC is named by the last range it covers        *)
(* (MacItem); once verified, a MAC is kept under that name.                 *)

NoMac == << >>

Hmac(digest) == digest

MacItem(mac) ==
    [kind |-> "mac", n |-> mac[Len(mac)].n, len |-> mac[Len(mac)].len,
     arcount |-> mac[Len(mac)].arcount]

(* bytes [0, len) of the n-th packet of the connection (0: the query), with *)
(* the ARCOUNT its header holds when it is digested                         *)
NoPriorMac == [kind |-> "none", n |-> 0, len |-> 0, arcount |-> 0]

PktItem(n, len, arcount) ==
    [kind |-> "pkt", n |-> n, len |-> len, arcount |-> arcount]

tsig_init_record ==
    [status |-> "OK", error_code |-> "NOERROR", response_count |-> 0,
     updates_since_last_prepare |-> 0, position |-> 0,
     digest |-> << >>, prior_mac |-> NoPriorMac, mac |-> NoMac]

tsig_init_query(t) ==
    [t EXCEPT !.status = "OK", !.error_code = "NOERROR", !.response_count = 0,
              !.updates_since_last_prepare = 0, !.position = 0,
              !.digest = << >>, !.prior_mac = NoPriorMac, !.mac = NoMac]

tsig_prepare(t) ==
    [t EXCEPT !.digest = IF t.prior_mac = NoPriorMac THEN << >>
                         ELSE <<t.prior_mac>>,
              !.updates_since_last_prepare = 0]

(* n > 0: the packet is a response (QR is set) *)
tsig_update(t, n, len, arcount) ==
    [t EXCEPT !.digest = Append(@, PktItem(n, len, arcount)),
              !.response_count = IF n > 0 THEN @ + 1 ELSE @,
              !.updates_since_last_prepare = @ + 1]

tsig_sign(t) ==
    [t EXCEPT !.mac = Hmac(t.digest), !.prior_mac = MacItem(Hmac(t.digest))]

tsig_find_rr(t, p) ==
    IF ~p.tsig.parses
    THEN [ok |-> FALSE, tsig |-> t]
    ELSE IF ~p.tsig.present
    THEN [ok |-> TRUE,
          tsig |-> [t EXCEPT !.status = "NOT_PRESENT", !.position = 0]]
    ELSE [ok |-> TRUE,
          tsig |-> [t EXCEPT !.status = IF p.tsig.key_ok THEN "OK" ELSE "ERROR",
                             !.error_code = p.tsig.error_code,
                             !.position = p.tsig.position,
                             !.mac = p.tsig.mac]]

tsig_verify(t) ==
    IF Hmac(t.digest) = t.mac
    THEN [ok |-> TRUE,
          tsig |-> [t EXCEPT !.status = "OK", !.mac = <<MacItem(t.mac)>>,
                             !.prior_mac = MacItem(Hmac(t.digest))]]
    ELSE [ok |-> FALSE,
          tsig |-> [t EXCEPT !.status = "ERROR", !.error_code = "BADSIG"]]

----------------------------------------------------------------------------
(* check_response_tsig *)

Verdict(err, t, arcount) == [err |-> err, tsig |-> t, arcount |-> arcount]

(* variant: the test of response_count inverted *)
RequiredTsigMissing_Inverted(t) == t.response_count # 0

RequiredTsigMissing(t) == t.response_count = 0

TooManyUntagged(t) == t.updates_since_last_prepare > MaxUntagged

StripTsig(arcount) == arcount - 1

(* variant: the TSIG error code is not looked at *)
TsigRejected_StatusOnly(t) ==
    IF t.status = "ERROR" THEN "TSIG record is not correct" ELSE ""

TsigRejected(t) ==
    IF t.status = "ERROR" THEN "TSIG record is not correct"
    ELSE IF t.error_code # "NOERROR" THEN "TSIG error code"
    ELSE ""

SignedLength(p, t) == t.position

(* variant: only the header of a packet without TSIG is digested *)
UntaggedLength_Header(p) == QHEADERSZ

UntaggedLength(p) == p.limit

check_response_tsig(p, t, key, n) ==
    IF ~key THEN Verdict("", t, p.arcount)
    ELSE LET f == tsig_find_rr(t, p) IN
    IF ~f.ok THEN Verdict("error parsing response", f.tsig, p.arcount)
    ELSE IF f.tsig.status = "NOT_PRESENT"
    THEN IF RequiredTsigMissing(f.tsig)
         THEN Verdict("required TSIG not present", f.tsig, p.arcount)
         ELSE IF TooManyUntagged(f.tsig)
         THEN Verdict("too many response packets without TSIG", f.tsig, p.arcount)
         ELSE Verdict("", tsig_update(f.tsig, n, UntaggedLength(p), p.arcount),
                      p.arcount)
    ELSE LET ar == StripTsig(p.arcount) IN
         IF TsigRejected(f.tsig) # ""
         THEN Verdict(TsigRejected(f.tsig), f.tsig, ar)
         ELSE LET v == tsig_verify(
                          tsig_update(f.tsig, n, SignedLength(p, f.tsig), ar)) IN
              IF ~v.ok
              THEN Verdict("TSIG record did not authenticate", v.tsig, ar)
              ELSE Verdict("", tsig_prepare(v.tsig), ar)

----------------------------------------------------------------------------
(* check_serial: validation of the SOA response and the serial comparison *)

(* variant: QDCOUNT is not tested *)
ProbeHeaderError_AnyQdcount(p, id) ==
    IF p.limit <= QHEADERSZ THEN "response size is too small"
    ELSE IF ~p.qr THEN "response is not a response"
    ELSE IF p.tc THEN "response is truncated"
    ELSE IF p.id # id THEN "bad response id"
    ELSE IF p.rcode # "NOERROR" THEN "error response"
    ELSE IF Len(p.an) = 0 THEN "answer section is empty"
    ELSE ""

ProbeHeaderError(p, id) ==
    IF p.limit <= QHEADERSZ THEN "response size is too small"
    ELSE IF ~p.qr THEN "response is not a response"
    ELSE IF p.tc THEN "response is truncated"
    ELSE IF p.id # id THEN "bad response id"
    ELSE IF p.rcode # "NOERROR" THEN "error response"
    ELSE IF Len(p.qd) # 1 THEN "question section count not equal to 1"
    ELSE IF Len(p.an) = 0 THEN "answer section is empty"
    ELSE ""

QuestionMatches(record, type) ==
    record.owner = Zone /\ record.type = type /\ record.klass = "IN"

RECURSIVE ProbeQuestionError(_, _)
ProbeQuestionError(qd, i) ==
    IF i > Len(qd) THEN ""
    ELSE IF ~Parses(qd[i]) THEN "bad RR in question section"
    ELSE IF ~QuestionMatches(qd[i], "SOA") THEN "response does not match query"
    ELSE ProbeQuestionError(qd, i + 1)

IsAnswerSOA(record) ==
    record.owner = Zone /\ record.type = "SOA" /\ record.klass = "IN"

RECURSIVE FindSOA(_, _)
FindSOA(an, i) ==
    IF i > Len(an) THEN [err |-> "SOA not found in answer", serial |-> 0]
    ELSE IF ~Parses(an[i]) THEN [err |-> "bad RR in answer section", serial |-> 0]
    ELSE IF IsAnswerSOA(an[i]) THEN [err |-> "", serial |-> an[i].serial]
    ELSE FindSOA(an, i + 1)

(* variant: an equal serial counts as newer *)
SerialIsNewer_OrEqual(first, serial, last) == first \/ serial >= last

SerialIsNewer(first, serial, last) == first \/ serial > last

SerialResult(rc, err, t, serial) ==
    [rc |-> rc, err |-> err, tsig |-> t, zone_serial |-> serial]

(* rc: 1 newer, 0 up to date, -1 error (every -1 is reached through error(), *)
(* which exits the process)                                                  *)
check_serial(p, id, t, key, n, first, last, zs) ==
    LET herr == ProbeHeaderError(p, id) IN
    IF herr # "" THEN SerialResult(0 - 1, herr, t, zs)
    ELSE LET c == check_response_tsig(p, t, key, n) IN
    IF c.err # "" THEN SerialResult(0 - 1, c.err, c.tsig, zs)
    ELSE LET qerr == ProbeQuestionError(p.qd, 1) IN
    IF qerr # "" THEN SerialResult(0 - 1, qerr, c.tsig, zs)
    ELSE LET a == FindSOA(p.an, 1) IN
    IF a.err # "" THEN SerialResult(0 - 1, a.err, c.tsig, zs)
    ELSE SerialResult(IF SerialIsNewer(first, a.serial, last) THEN 1 ELSE 0,
                      "", c.tsig, a.serial)

----------------------------------------------------------------------------
(* handle_axfr_response / parse_response *)

(* variant: the response id is not compared with the query id *)
AxfrHeaderError_NoId(p, id) ==
    IF p.limit <= QHEADERSZ THEN "response size is too small"
    ELSE IF ~p.qr THEN "response is not a response"
    ELSE IF p.rcode # "NOERROR" THEN "error response"
    ELSE IF Len(p.qd) > 1 THEN "query section count greater than 1"
    ELSE IF Len(p.an) = 0 THEN "answer section is empty"
    ELSE ""

AxfrHeaderError(p, id) ==
    IF p.limit <= QHEADERSZ THEN "response size is too small"
    ELSE IF ~p.qr THEN "response is not a response"
    ELSE IF p.id # id THEN "bad response id"
    ELSE IF p.rcode # "NOERROR" THEN "error response"
    ELSE IF Len(p.qd) > 1 THEN "query section count greater than 1"
    ELSE IF Len(p.an) = 0 THEN "answer section is empty"
    ELSE ""

(* packet_skip_rr over the question section *)
SkipQuestionError(qd) ==
    IF \E i \in 1 .. Len(qd) : ~Parses(qd[i])
    THEN "bad RR in question section" ELSE ""

FirstRRNotSOA(count, record) ==
    count = 0 /\ (record.type # "SOA" \/ record.klass # "IN")

IsClosingSOA(count, record) ==
    count > 0 /\ record.type = "SOA" /\ record.klass = "IN"

(* print_rr: the record is written to the zone file. A record whose     *)
(* rdata neither print_rdata nor rdata_atoms_to_unknown_string can print *)
(* has type "UNPRINTABLE": nothing is written and the result is 0.       *)
Prints(record) == record.type # "UNPRINTABLE"

print_rr(out, record) == IF Prints(record) THEN Append(out, record) ELSE out

(* failed: parse_response returned 0 without a call of error() *)
ParseState(err, count, dn, out) ==
    [err |-> err, rr_count |-> count, done |-> dn, zone_file |-> out,
     failed |-> FALSE]

RECURSIVE ParseAnswers(_, _, _)
ParseAnswers(an, i, st) ==
    IF i > Len(an) THEN st
    ELSE IF ~Parses(an[i])
    THEN [st EXCEPT !.err = "bad RR in answer section"]
    ELSE IF FirstRRNotSOA(st.rr_count, an[i])
    THEN [st EXCEPT !.err = "First RR must be the SOA record"]
    ELSE IF IsClosingSOA(st.rr_count, an[i])
    THEN [st EXCEPT !.done = TRUE]
    ELSE IF ~Prints(an[i])
    THEN [st EXCEPT !.rr_count = @ + 1, !.failed = TRUE]
    ELSE ParseAnswers(an, i + 1,
                      [st EXCEPT !.rr_count = @ + 1,
                                 !.zone_file = print_rr(@, an[i])])

parse_response(p, count, out) ==
    IF SkipQuestionError(p.qd) # ""
    THEN ParseState(SkipQuestionError(p.qd), count, FALSE, out)
    ELSE ParseAnswers(p.an, 1, ParseState("", count, FALSE, out))

(* init_query with a TSIG record: init_query, prepare, update with the      *)
(* query up to its end (ARCOUNT still 0), sign, append                       *)
QuerySigned(t) ==
    tsig_sign(tsig_update(tsig_prepare(tsig_init_query(t)), 0, QueryLength, 0))

----------------------------------------------------------------------------
(* State of the process (main's locals, struct axfr_state, the TSIG       *)
(* record), the zone file, and history of what the server sent             *)

VARIABLES
    pc,               \* "connect", "probe" (SOA query sent), "axfr", "exit"
    exit_code,        \* process exit status, NoExit while running
    errmsg,           \* message of the error() call that ended the process
    server,           \* position in argv
    tsig_key,         \* a TSIG key file was given (state.tsig is not NULL)
    first_transfer, last_serial, zone_serial,
    probe_id,         \* query_id of check_serial
    query_id,         \* state.query_id
    done, rr_count, packets_received,
    tsig,             \* the TSIG record
    zone_file_open,   \* the zone file was opened for writing (truncated)
    zone_file,        \* records printed to the zone file
    axfr_sent,        \* AXFR queries written to the socket
    serial_rc,        \* what check_serial last returned
    received,         \* answer records of the AXFR responses, as sent
    last_pkt,         \* the most recent response packet
    tsig_verdict,     \* outcome of check_response_tsig on last_pkt
    q_responses,      \* responses received to the query in flight
    contacted,        \* servers a connection was made to, in order
    m_mac, m_pending, \* signer side: last MAC, unsigned packets since
    m_valid           \* signer side: the MAC that belongs on last_pkt

xfervars == <<pc, exit_code, errmsg, server, tsig_key, first_transfer, last_serial,
          zone_serial, probe_id, query_id, done, rr_count, packets_received,
          tsig, zone_file_open, zone_file, axfr_sent, serial_rc, received,
          last_pkt, tsig_verdict, q_responses, contacted, m_mac, m_pending,
          m_valid>>

(* one pass through send_query and receive_response, system call by system *)
(* call                                                                     *)
VARIABLES
    io_pc,            \* "idle", "send_size", "send_body", "recv_size",
                      \* "recv_body", "received", "exit"
    io_size,          \* size argument of write_socket / read_socket
    io_total,         \* total_count
    io_body,          \* length of the message being sent or received
    io_errno,         \* errno of the system call that just failed, or ""
    io_errmsg,        \* message of the error() call that ended the process
    io_eof,           \* read returned 0
    timeout_flag,     \* set by to_alarm
    alarm_set,        \* alarm(MAX_WAITING_TIME) is pending
    alarm_blocked     \* SIGALRM arrived while read was blocked

sockvars == <<io_pc, io_size, io_total, io_body, io_errno, io_errmsg, io_eof,
              timeout_flag, alarm_set, alarm_blocked>>

(* the radix tree of the test (udb_radix_test_file) and its test elements *)
VARIABLES
    radtree,          \* the tree object: count, root, and the nodes by path
    strs,             \* live struct teststr, by mystr: the node in mynode
    failed_assert,    \* the CuAssert that stopped the test, "" while it runs
    writer            \* the insert or delete whose writes are under way

trievars == <<radtree, strs, failed_assert, writer>>

(* a query as init_query builds it, octet by octet, and its way to a    *)
(* peer that holds the same key and back                                *)
VARIABLES
    signing           \* pc, type, tsig, query, peer, reply, altered, errmsg

(* nsd-notify in notify_host, and nsd on its way to the server loop *)
VARIABLES
    notify,           \* pc, host, socket, the counts of the system calls
    nsd               \* pc, server_kind, mode, handlers, signal hints

extvars == <<signing, notify, nsd>>

restvars == <<sockvars, trievars, extvars>>

vars == <<xfervars, sockvars, trievars, extvars>>

(* ------------------------------------------------------------------ *)
(* The radix tree of udb_radix_test_file and the udb_radix functions   *)
(* it exercises.                                                       *)
(* The tree operations follow the description of the tree; the test    *)
(* steps and the key order follow tpkg/cutest/cutest_dns.c.            *)
(* ------------------------------------------------------------------ *)

(* the octets of the generated keys, 'a' + get_ran_val(26): the first   *)
(* and the last of them, so that a selector array holds unpopulated     *)
(* slots between two populated ones and its capacity doubles and halves *)
Bytes == {97, 122}

Keys == SeqsUpTo(Bytes, MaxKeyLen)

(* a node pointer: null, or the node, named by the octets that lead to it *)
Null == [null |-> TRUE, path |-> <<>>]

Ptr(p) == [null |-> FALSE, path |-> p]

(* an element pointer: null, or the struct teststr holding mystr *)
NoElem == [null |-> TRUE, mystr |-> <<>>]

ElemPtr(key) == [null |-> FALSE, mystr |-> key]

(* a child selector: the pointer to the child and the edge string; an   *)
(* unpopulated slot has a null pointer and length 0                     *)
Slot(str, node) == [str |-> str, node |-> node]

NoSlot == Slot(<<>>, Null)

(* the lookup array of a node without children *)
NoKids == [len |-> 0, capacity |-> 0, str_cap |-> 0, array |-> <<>>]

NewNode(parent, pidx, elem) ==
    [parent |-> parent, pidx |-> pidx, offset |-> 0, elem |-> elem,
     lookup |-> NoKids]

(* the populated slots of a node, by the octet that selects them: slot  *)
(* i of the array is selected by octet i + offset                       *)
Kids(nd) ==
    [b \in {nd.offset + i - 1 : i \in {j \in 1 .. nd.lookup.len :
                                       ~nd.lookup.array[j].node.null}}
        |-> nd.lookup.array[b - nd.offset + 1]]

(* udb_radix_tree_create: count 0, no root *)
(* no insert or delete is under way *)
NoWriter ==
    [op |-> "", key |-> <<>>, to |-> Null, moved |-> FALSE, bad |-> FALSE]

udb_radix_tree_create == [count |-> 0, root |-> Null, nodes |-> [p \in {} |-> 0]]

InitTrie ==
    /\ radtree = udb_radix_tree_create
    /\ strs = [k \in {} |-> Null]
    /\ failed_assert = ""
    /\ writer = NoWriter

(* variant: nothing is removed *)
Without_Keep(f, x) == f

Without(f, x) == [y \in DOMAIN f \ {x} |-> f[y]]

(* variant: only the length of the edge is compared *)
SlotMatches_LengthOnly(s, key, pos) ==
    pos + 1 + Len(s.str) <= Len(key)

(* the slot of node n taken by octet b continues with the octets of key *)
(* that follow position pos + 1                                         *)
SlotMatches(s, key, pos) ==
    /\ pos + 1 + Len(s.str) <= Len(key)
    /\ SubSeq(key, pos + 2, pos + 1 + Len(s.str)) = s.str

(* udb_radix_search: exact match, and only a node that holds an element *)
RECURSIVE radix_search_from(_, _, _, _)
radix_search_from(t, n, key, pos) ==
    IF pos = Len(key)
    THEN IF t.nodes[n].elem.null THEN Null ELSE Ptr(n)
    ELSE LET b == key[pos + 1]
             kids == Kids(t.nodes[n])
         IN IF b \notin DOMAIN kids THEN Null
            ELSE IF ~SlotMatches(kids[b], key, pos) THEN Null
            ELSE radix_search_from(t, kids[b].node.path, key,
                                   pos + 1 + Len(kids[b].str))

udb_radix_search(t, key) ==
    IF t.root.null THEN Null ELSE radix_search_from(t, t.root.path, key, 0)

(* the descent of an insert: the deepest node whose path is a prefix of *)
(* the key, and the number of octets of the key it consumed              *)
RECURSIVE radix_find_prefix(_, _, _, _)
radix_find_prefix(t, n, key, pos) ==
    IF pos = Len(key) THEN [node |-> n, pos |-> pos]
    ELSE LET b == key[pos + 1]
             kids == Kids(t.nodes[n])
         IN IF b \in DOMAIN kids /\ SlotMatches(kids[b], key, pos)
            THEN radix_find_prefix(t, kids[b].node.path, key,
                                   pos + 1 + Len(kids[b].str))
            ELSE [node |-> n, pos |-> pos]

(* the length of the longest common prefix of two octet strings *)
RECURSIVE CommonPrefix(_, _)
CommonPrefix(a, b) ==
    IF a = <<>> \/ b = <<>> \/ Head(a) # Head(b) THEN 0
    ELSE 1 + CommonPrefix(Tail(a), Tail(b))

(* udb_radarray_max_len: the longest edge string of the populated slots *)
udb_radarray_max_len(array) ==
    LET lens == {Len(array[i].str) : i \in {j \in 1 .. Len(array) :
                                            ~array[j].node.null}}
    IN IF lens = {} THEN 0 ELSE CHOOSE m \in lens : \A l \in lens : l <= m

(* variant: the capacity doubles once *)
GrowCapacity_Once(capacity, len) ==
    IF capacity >= len THEN capacity
    ELSE IF capacity = 0 THEN 1
    ELSE 2 * capacity

(* edge-array sizing: the capacity doubles until the slots fit, at most *)
(* 256 of them                                                          *)
RECURSIVE GrowCapacity(_, _)
GrowCapacity(capacity, len) ==
    IF capacity >= len THEN capacity
    ELSE IF capacity = 0 THEN GrowCapacity(1, len)
    ELSE IF 2 * capacity >= 256 THEN 256
    ELSE GrowCapacity(2 * capacity, len)

(* edge-array sizing: the capacity halves on shrink, when len is below  *)
(* capacity/4                                                           *)
ShrinkCapacity(capacity, len) ==
    IF len < capacity \div 4 THEN capacity \div 2 ELSE capacity

(* variant: the string bank only grows *)
StrCap_NoRecompact(str_cap, maxlen) ==
    IF maxlen > str_cap THEN maxlen ELSE str_cap

(* edge-array sizing: str_cap is the longest edge; when the longest     *)
(* edge drops below str_cap/2 the bank is recompacted to it             *)
StrCap(str_cap, maxlen) ==
    IF maxlen > str_cap THEN maxlen
    ELSE IF maxlen < str_cap \div 2 THEN maxlen
    ELSE str_cap

(* the array of a node with the slot of octet b set: the array grows at *)
(* the front (the offset drops to b) or at the end to hold the slot     *)
radarray_set(nd, b, slot) ==
    LET lk == nd.lookup
        gap(k) == [i \in 1 .. k |-> NoSlot]
        array == IF lk.len = 0 THEN <<slot>>
                 ELSE IF b < nd.offset
                 THEN <<slot>> \o gap(nd.offset - b - 1) \o lk.array
                 ELSE IF b >= nd.offset + lk.len
                 THEN lk.array \o gap(b - nd.offset - lk.len) \o <<slot>>
                 ELSE [lk.array EXCEPT ![b - nd.offset + 1] = slot]
    IN [nd EXCEPT
          !.offset = IF lk.len = 0 \/ b < nd.offset THEN b ELSE nd.offset,
          !.lookup = [len |-> Len(array),
                      capacity |-> GrowCapacity(lk.capacity, Len(array)),
                      str_cap |-> StrCap(lk.str_cap,
                                         udb_radarray_max_len(array)),
                      array |-> array]]

(* the array of a node with the slot of octet b cleared and the array   *)
(* compacted: unpopulated slots at either end are dropped (the offset   *)
(* moves up with the front), an array left without slots is the empty  *)
(* array                                                                *)
radarray_clean_one(nd, b) ==
    LET lk == nd.lookup
        cleared == [lk.array EXCEPT ![b - nd.offset + 1] = NoSlot]
        used == {i \in 1 .. lk.len : ~cleared[i].node.null}
        lo == CHOOSE i \in used : \A j \in used : i <= j
        hi == CHOOSE i \in used : \A j \in used : i >= j
        array == SubSeq(cleared, lo, hi)
    IN IF used = {} THEN [nd EXCEPT !.offset = 0, !.lookup = NoKids]
       ELSE [nd EXCEPT
               !.offset = nd.offset + lo - 1,
               !.lookup = [len |-> Len(array),
                           capacity |-> ShrinkCapacity(lk.capacity,
                                                       Len(array)),
                           str_cap |-> StrCap(lk.str_cap,
                                              udb_radarray_max_len(array)),
                           array |-> array]]

(* variant: the children keep the slot index they had *)
radnode_fix_pidx_Stale(nodes, n) == nodes

(* after the array of node n moved, every child is told its slot index *)
radnode_fix_pidx(nodes, n) ==
    LET array == nodes[n].lookup.array
        at(p) == {i \in 1 .. Len(array) : array[i].node = Ptr(p)}
    IN [p \in DOMAIN nodes |->
          IF at(p) = {} THEN nodes[p]
          ELSE [nodes[p] EXCEPT !.pidx = (CHOOSE i \in at(p) : TRUE) - 1]]

(* node c becomes the child of node n selected by octet b, over the     *)
(* edge string str                                                      *)
radnode_set_child(nodes, n, b, str, c) ==
    radnode_fix_pidx([nodes EXCEPT
                        ![n] = radarray_set(@, b, Slot(str, Ptr(c))),
                        ![c].parent = Ptr(n)],
                     n)

(* insert below an existing root: (a) a new child in a free slot, (b) an *)
(* edge split into the shared prefix and two children, (c) the element   *)
(* attached to a node that exists                                        *)
radix_insert_at(t, key, elem) ==
    LET f == radix_find_prefix(t, t.root.path, key, 0)
        n == f.node
        pos == f.pos
        kids == Kids(t.nodes[n])
    IN IF pos = Len(key)
       THEN IF ~t.nodes[n].elem.null
            THEN [ok |-> FALSE, rt |-> t, node |-> Null]
            ELSE [ok |-> TRUE, node |-> Ptr(n),
                  rt |-> [t EXCEPT !.count = @ + 1,
                                   !.nodes[n].elem = elem]]
       ELSE LET b == key[pos + 1]
                r == SubSeq(key, pos + 2, Len(key))
            IN IF b \notin DOMAIN kids
               THEN [ok |-> TRUE, node |-> Ptr(key),
                     rt |-> [t EXCEPT
                        !.count = @ + 1,
                        !.nodes = radnode_set_child(
                            (key :> NewNode(Null, 0, elem)) @@ @,
                            n, b, r, key)]]
               ELSE LET e == kids[b].str
                        c == kids[b].node.path
                        k == CommonPrefix(e, r)
                        m == SubSeq(key, 1, pos + 1 + k)
                        down == SubSeq(e, k + 2, Len(e))
                    IN IF k = Len(r)
                       THEN [ok |-> TRUE, node |-> Ptr(m),
                             rt |-> [t EXCEPT
                               !.count = @ + 1,
                               !.nodes = radnode_set_child(
                                   radnode_set_child(
                                       (m :> NewNode(Null, 0, elem)) @@ @,
                                       m, e[k + 1], down, c),
                                   n, b, r, m)]]
                       ELSE [ok |-> TRUE, node |-> Ptr(key),
                             rt |-> [t EXCEPT
                               !.count = @ + 1,
                               !.nodes = radnode_set_child(
                                   radnode_set_child(
                                       radnode_set_child(
                                           (m :> NewNode(Null, 0, NoElem))
                                           @@ (key :> NewNode(Null, 0, elem))
                                           @@ @,
                                           m, e[k + 1], down, c),
                                       m, r[k + 1],
                                       SubSeq(r, k + 2, Len(r)), key),
                                   n, b, SubSeq(e, 1, k), m)]]

(* udb_radix_insert: the first insert creates the root *)
udb_radix_insert(t, key, elem) ==
    IF t.root.null
    THEN radix_insert_at([t EXCEPT !.root = Ptr(<<>>),
                                   !.nodes = <<>> :> NewNode(Null, 0, NoElem)],
                         key, elem)
    ELSE radix_insert_at(t, key, elem)

(* variant: the branching octet is left out of the merged edge *)
MergedEdge_NoOctet(edge, b, str) == edge \o str

(* the edge of a merged child: the node's edge, the branching octet,    *)
(* the child's edge                                                     *)
MergedEdge(edge, b, str) == edge \o <<b>> \o str

(* a node without element: without children it is unlinked from its     *)
(* parent's selector, the array is compacted and the parent, when it    *)
(* holds no element either, is cleaned up the same way (the root is     *)
(* unlinked from the tree object); with one child it is merged with the *)
(* child: the child takes the node's slot and the edge becomes the      *)
(* node's edge, the branching octet, the child's edge                   *)
RECURSIVE radnode_cleanup(_, _)
radnode_cleanup(t, n) ==
    LET nd == t.nodes[n]
        kids == Kids(nd)
        par == nd.parent.path
        b == t.nodes[par].offset + nd.pidx
    IN IF DOMAIN kids = {}
       THEN IF nd.parent.null
            THEN [t EXCEPT !.root = Null, !.nodes = Without(@, n)]
            ELSE LET unlinked ==
                       [t EXCEPT !.nodes = Without(
                           radnode_fix_pidx(
                               [@ EXCEPT ![par] = radarray_clean_one(@, b)],
                               par),
                           n)]
                 IN IF t.nodes[par].elem.null
                    THEN radnode_cleanup(unlinked, par)
                    ELSE unlinked
       ELSE IF Cardinality(DOMAIN kids) = 1 /\ ~nd.parent.null
       THEN LET cb == CHOOSE o \in DOMAIN kids : TRUE
                edge == MergedEdge(Kids(t.nodes[par])[b].str, cb,
                                   kids[cb].str)
            IN [t EXCEPT !.nodes = Without(
                   radnode_set_child(@, par, b, edge, kids[cb].node.path),
                   n)]
       ELSE t

(* variant: the count is left as it was *)
udb_radix_delete_KeepCount(t, n) ==
    radnode_cleanup([t EXCEPT !.nodes[n].elem = NoElem], n)

(* variant: the element stays on the node *)
udb_radix_delete_KeepElem(t, n) ==
    radnode_cleanup([t EXCEPT !.count = @ - 1], n)

(* udb_radix_delete: the element is cleared, then the node is cleaned up *)
udb_radix_delete(t, n) ==
    radnode_cleanup([t EXCEPT !.count = @ - 1, !.nodes[n].elem = NoElem], n)

(* variant: the slots are tried from the highest index down *)
Lowest_Highest(S) == CHOOSE b \in S : \A c \in S : b >= c

(* the populated slot with the lowest index *)
Lowest(S) == CHOOSE b \in S : \A c \in S : b <= c

(* the first node with an element in the subtree of n, n itself first,  *)
(* then its slots from the lowest index up                              *)
RECURSIVE radix_first_in_subtree(_, _)
RECURSIVE radix_first_in_slots(_, _, _)
radix_first_in_subtree(t, n) ==
    IF ~t.nodes[n].elem.null THEN Ptr(n)
    ELSE radix_first_in_slots(t, n, DOMAIN Kids(t.nodes[n]))

radix_first_in_slots(t, n, S) ==
    IF S = {} THEN Null
    ELSE LET b == Lowest(S)
             r == radix_first_in_subtree(t, Kids(t.nodes[n])[b].node.path)
         IN IF ~r.null THEN r ELSE radix_first_in_slots(t, n, S \ {b})

(* the first element in a slot of n above index after; without one, the *)
(* search goes on in the parent, above the slot of n                    *)
RECURSIVE radix_next_from(_, _, _)
radix_next_from(t, n, after) ==
    LET r == radix_first_in_slots(t, n,
                 {b \in DOMAIN Kids(t.nodes[n]) : b > after})
    IN IF ~r.null THEN r
       ELSE IF t.nodes[n].parent.null THEN Null
       ELSE radix_next_from(t, t.nodes[n].parent.path,
                            t.nodes[t.nodes[n].parent.path].offset
                                + t.nodes[n].pidx)

udb_radix_first(t) ==
    IF t.root.null THEN Null ELSE radix_first_in_subtree(t, t.root.path)

udb_radix_next(t, n) ==
    IF n.null THEN Null ELSE radix_next_from(t, n.path, -1)

(* variant: the slots are tried from the lowest index up *)
Highest_Lowest(S) == CHOOSE b \in S : \A c \in S : b <= c

(* the populated slot with the highest index *)
Highest(S) == CHOOSE b \in S : \A c \in S : b >= c

(* the last node with an element in the subtree of n: its slots from    *)
(* the highest index down, then n itself                                *)
RECURSIVE radix_last_in_subtree(_, _)
RECURSIVE radix_last_in_slots(_, _, _)
radix_last_in_subtree(t, n) ==
    LET r == radix_last_in_slots(t, n, DOMAIN Kids(t.nodes[n]))
    IN IF ~r.null THEN r
       ELSE IF ~t.nodes[n].elem.null THEN Ptr(n)
       ELSE Null

radix_last_in_slots(t, n, S) ==
    IF S = {} THEN Null
    ELSE LET b == Highest(S)
             r == radix_last_in_subtree(t, Kids(t.nodes[n])[b].node.path)
         IN IF ~r.null THEN r ELSE radix_last_in_slots(t, n, S \ {b})

(* the last element in a slot of n below index before, then n itself;   *)
(* without one, the search goes on in the parent, below the slot of n   *)
RECURSIVE radix_prev_from(_, _, _)
radix_prev_from(t, n, before) ==
    LET r == radix_last_in_slots(t, n,
                 {b \in DOMAIN Kids(t.nodes[n]) : b < before})
    IN IF ~r.null THEN r
       ELSE IF ~t.nodes[n].elem.null THEN Ptr(n)
       ELSE IF t.nodes[n].parent.null THEN Null
       ELSE radix_prev_from(t, t.nodes[n].parent.path,
                            t.nodes[t.nodes[n].parent.path].offset
                                + t.nodes[n].pidx)

udb_radix_last(t) ==
    IF t.root.null THEN Null ELSE radix_last_in_subtree(t, t.root.path)

(* variant: the search stops at the parent and never goes further up *)
udb_radix_prev_NoAscend(t, n) ==
    IF n.null \/ t.nodes[n.path].parent.null THEN Null
    ELSE LET p == t.nodes[n.path].parent.path
             r == radix_last_in_slots(t, p,
                      {b \in DOMAIN Kids(t.nodes[p]) :
                           b < t.nodes[p].offset + t.nodes[n.path].pidx})
         IN IF ~r.null THEN r
            ELSE IF ~t.nodes[p].elem.null THEN Ptr(p)
            ELSE Null

udb_radix_prev(t, n) ==
    IF n.null \/ t.nodes[n.path].parent.null THEN Null
    ELSE radix_prev_from(t, t.nodes[n.path].parent.path,
                         t.nodes[t.nodes[n.path].parent.path].offset
                             + t.nodes[n.path].pidx)

(* udb_radix_find_less_equal: the descent of a search; where it stops,  *)
(* the answer is the closest element before that place: the node itself *)
(* on an exact match, the last element of a child whose edge sorts      *)
(* before the key, else the last element of the lower slots, the node,  *)
(* or what precedes the node                                            *)
RECURSIVE radix_find_le(_, _, _, _)
radix_find_le(t, n, key, pos) ==
    LET kids == Kids(t.nodes[n])
        b == key[pos + 1]
        r == SubSeq(key, pos + 2, Len(key))
        e == kids[b].str
        k == CommonPrefix(e, r)
    IN IF pos = Len(key)
       THEN IF ~t.nodes[n].elem.null
            THEN [exact |-> TRUE, node |-> Ptr(n)]
            ELSE [exact |-> FALSE, node |-> udb_radix_prev(t, Ptr(n))]
       ELSE IF b \notin DOMAIN kids
       THEN [exact |-> FALSE, node |-> radix_prev_from(t, n, b)]
       ELSE IF SlotMatches(kids[b], key, pos)
       THEN radix_find_le(t, kids[b].node.path, key, pos + 1 + Len(e))
       ELSE IF k = Len(r) \/ r[k + 1] < e[k + 1]
       THEN [exact |-> FALSE, node |-> radix_prev_from(t, n, b)]
       ELSE [exact |-> FALSE,
             node |-> radix_last_in_subtree(t, kids[b].node.path)]

udb_radix_find_less_equal(t, key) ==
    IF t.root.null THEN [exact |-> FALSE, node |-> Null]
    ELSE radix_find_le(t, t.root.path, key, 0)

(* test_del_a_key: udb_radix_first, then udb_radix_next x times *)
RECURSIVE WalkTo(_, _, _)
WalkTo(t, n, x) == IF x = 0 THEN n ELSE WalkTo(t, udb_radix_next(t, n), x - 1)

(* bstr_cmp: memcmp over the shorter length, then the shorter string first *)
RECURSIVE bstr_cmp(_, _)
bstr_cmp(x, y) ==
    IF x = <<>> /\ y = <<>> THEN 0
    ELSE IF x = <<>> THEN -1
    ELSE IF y = <<>> THEN 1
    ELSE IF Head(x) < Head(y) THEN -1
    ELSE IF Head(x) > Head(y) THEN 1
    ELSE bstr_cmp(Tail(x), Tail(y))

(* test_check_list_keys and qsort with udb_test_sort_cmp: the live test *)
(* elements in the order of bstr_cmp                                    *)
RECURSIVE SortKeys(_)
SortKeys(S) ==
    IF S = {} THEN <<>>
    ELSE LET lo == CHOOSE k \in S : \A j \in S : bstr_cmp(k, j) <= 0
         IN <<lo>> \o SortKeys(S \ {lo})

(* the allocations of an insert that made tree t2 of tree t: a chunk    *)
(* for each new node, and for each new or grown selector array          *)
InsertAllocs(t, t2) ==
    Cardinality(DOMAIN t2.nodes \ DOMAIN t.nodes)
    + Cardinality({p \in DOMAIN t2.nodes :
          IF p \in DOMAIN t.nodes
          THEN \/ t2.nodes[p].lookup.capacity # t.nodes[p].lookup.capacity
               \/ t2.nodes[p].lookup.str_cap # t.nodes[p].lookup.str_cap
          ELSE t2.nodes[p].lookup.capacity # 0})

(* variant: a root created by the failed insert stays *)
radix_insert_rollback_KeepRoot(t, t2) ==
    IF t.root.null
    THEN [t EXCEPT !.root = Ptr(<<>>),
                   !.nodes = <<>> :> NewNode(Null, 0, NoElem)]
    ELSE t

(* out of space during an insert: what the insert allocated is freed    *)
(* and the tree is as it was before the call                            *)
radix_insert_rollback(t, t2) == t

(* udb_radix_insert in an arena that runs out of space at allocation    *)
(* fail of the call (never, when fail is 0): the insert returns failure *)
(* and is rolled back                                                   *)
udb_radix_insert_alloc(t, key, elem, fail) ==
    LET r == udb_radix_insert(t, key, elem)
    IN IF ~r.ok \/ fail = 0 \/ fail > InsertAllocs(t, r.rt) THEN r
       ELSE [ok |-> FALSE, node |-> Null,
             rt |-> radix_insert_rollback(t, r.rt)]

(* test_ran_add_del: a generated key that the tree does not hold is     *)
(* inserted by test_insert_string, which records the node in mynode; an *)
(* insert that fails stops the test in CuAssert                         *)
test_insert_string(key, fail) ==
    /\ failed_assert = ""
    /\ radtree.count < MaxKeys
    /\ udb_radix_search(radtree, key).null
    /\ fail <= InsertAllocs(radtree,
                            udb_radix_insert(radtree, key, ElemPtr(key)).rt)
    /\ LET r == udb_radix_insert_alloc(radtree, key, ElemPtr(key), fail)
       IN /\ radtree' = r.rt
          /\ IF r.ok
             THEN /\ strs' = (key :> r.node) @@ strs
                  /\ UNCHANGED failed_assert
             ELSE /\ failed_assert' = "insertmustwork"
                  /\ UNCHANGED strs
    /\ UNCHANGED <<xfervars, sockvars, extvars, writer>>

(* test_del_a_key: the node x steps into the walk is deleted and its    *)
(* test element freed; nothing happens when the walk ran off the end    *)
test_del_a_key(x) ==
    /\ failed_assert = ""
    /\ x < radtree.count
    /\ LET n == WalkTo(radtree, udb_radix_first(radtree), x)
       IN IF n.null
          THEN UNCHANGED <<radtree, strs, failed_assert>>
          ELSE /\ radtree' = udb_radix_delete(radtree, n.path)
               /\ strs' = Without(strs, radtree.nodes[n.path].elem.mystr)
               /\ UNCHANGED failed_assert
    /\ UNCHANGED <<xfervars, sockvars, extvars, writer>>

NextTrie ==
    \/ \E key \in Keys, fail \in 0 .. MaxAllocs : test_insert_string(key, fail)
    \/ \E x \in 0 .. MaxKeys - 1 : test_del_a_key(x)

(* ------------------------------------------------------------------ *)
(* TSIG on the octets of a message: a query as init_query builds and   *)
(* signs it, a peer with the same key that verifies it and signs the   *)
(* response, and check_response_tsig on that response.  A MAC is the   *)
(* key with everything that was digested; two MACs are equal exactly   *)
(* when key, algorithm and digested octets are.                        *)
(* ------------------------------------------------------------------ *)

SigKeys ==
    {[name |-> "key1", algorithm |-> "hmac-md5", secret |-> "s1"],
     [name |-> "key2", algorithm |-> "hmac-md5", secret |-> "s2"]}

(* values random() returns *)
Randoms == {0, 1, 65535, 65536, 65537, 2147483647}

(* time of the signer's clock *)
Now == "t1"

TsigRRSize == PacketLimit - TsigPosition

(* a message: the header fields, the question and answer sections and  *)
(* the TSIG RR at the end of the additional section, if any            *)
Message(id, qr, aa, qd, an, limit) ==
    [id |-> id, qr |-> qr, aa |-> aa, flags |-> {}, opcode |-> "QUERY",
     rcode |-> "NOERROR", qdcount |-> Len(qd), ancount |-> Len(an),
     nscount |-> 0, arcount |-> 0, qd |-> qd, an |-> an, tsig |-> << >>,
     limit |-> limit]

(* the octets [0, len) of the message *)
BytesUpTo(p, len) ==
    IF len >= p.limit THEN p
    ELSE [p EXCEPT !.tsig = << >>, !.limit = len]

NoContext == [prior |-> << >>, fed |-> << >>]

(* the TSIG variables that are digested after the message *)
TsigVariables(name, algorithm, time_signed, error_code) ==
    [name |-> name, algorithm |-> algorithm, time_signed |-> time_signed,
     error_code |-> error_code]

HmacFinal(key, context, variables) ==
    [secret |-> key.secret, algorithm |-> key.algorithm, over |-> context,
     variables |-> variables, bits |-> "computed"]

(* the engine notes its calls in the record *)
Called(rec, op, len) == Append(rec.calls, [op |-> op, len |-> len])

(* init_record: algorithm and key are bound *)
init_record(key) ==
    [key |-> key, query_id |-> 0, status |-> "OK", error_code |-> "NOERROR",
     response_count |-> 0, updates_since_last_prepare |-> 0, position |-> 0,
     time_signed |-> Now, context |-> NoContext, prior_mac |-> << >>,
     mac |-> << >>, calls |-> << >>]

(* init_query of the engine: status OK, counters and context reset *)
init_query_id(rec, id) ==
    [rec EXCEPT !.query_id = id, !.status = "OK",
                !.error_code = "NOERROR", !.response_count = 0,
                !.updates_since_last_prepare = 0, !.position = 0,
                !.time_signed = Now, !.context = NoContext,
                !.prior_mac = << >>, !.mac = << >>,
                !.calls = Called(rec, "init_query", 0)]

(* prepare: a new window, begun with the previous signature if any *)
prepare(rec) ==
    [rec EXCEPT !.context = [prior |-> rec.prior_mac, fed |-> << >>],
                !.updates_since_last_prepare = 0,
                !.calls = Called(rec, "prepare", 0)]

(* update: the octets [0, len) of the packet are fed to the window *)
update(rec, p, len) ==
    [rec EXCEPT !.context.fed = Append(@, BytesUpTo(p, len)),
                !.response_count = IF p.qr THEN @ + 1 ELSE @,
                !.updates_since_last_prepare = @ + 1,
                !.calls = Called(rec, "update", len)]

(* sign: the window is closed and its MAC kept in the record *)
sign(rec) ==
    LET m == HmacFinal(rec.key, rec.context,
                       TsigVariables(rec.key.name, rec.key.algorithm,
                                     rec.time_signed, rec.error_code))
    IN [rec EXCEPT !.mac = <<m>>, !.prior_mac = <<m>>,
                   !.calls = Called(rec, "sign", 0)]

(* append_rr: the TSIG RR is written at the position of the buffer *)
append_rr(rec, p) ==
    [p EXCEPT !.tsig = <<[name |-> rec.key.name,
                          algorithm |-> rec.key.algorithm,
                          time_signed |-> rec.time_signed,
                          mac |-> rec.mac[1],
                          original_id |-> rec.query_id,
                          error_code |-> rec.error_code,
                          position |-> p.limit]>>,
              !.limit = @ + TsigRRSize]

(* find_rr: position, error code and MAC of the TSIG RR, or NOT_PRESENT *)
find_rr(rec, p) ==
    IF p.tsig = << >>
    THEN [rec EXCEPT !.status = "NOT_PRESENT", !.position = 0,
                     !.calls = Called(rec, "find_rr", 0)]
    ELSE LET rr == p.tsig[1]
         IN [rec EXCEPT !.status = IF /\ rr.name = rec.key.name
                                      /\ rr.algorithm = rec.key.algorithm
                                   THEN "OK" ELSE "ERROR",
                        !.error_code = rr.error_code,
                        !.position = rr.position,
                        !.time_signed = rr.time_signed,
                        !.mac = <<rr.mac>>,
                        !.calls = Called(rec, "find_rr", 0)]

(* verify: the window is closed and compared with the MAC received *)
verify(rec) ==
    LET m == HmacFinal(rec.key, rec.context,
                       TsigVariables(rec.key.name, rec.key.algorithm,
                                     rec.time_signed, rec.error_code))
    IN IF <<m>> = rec.mac
       THEN [rec EXCEPT !.status = "OK", !.prior_mac = rec.mac,
                        !.calls = Called(rec, "verify", 0)]
       ELSE [rec EXCEPT !.status = "ERROR", !.error_code = "BADSIG",
                        !.calls = Called(rec, "verify", 0)]

(* variant: the window is signed before the query is fed to it *)
init_query_SignFirst(type, rnd, ts) ==
    LET qid == rnd % 65536
        q == [Message(qid, FALSE, TRUE,
                      <<[owner |-> Zone, type |-> type, klass |-> "IN"]>>,
                      << >>, QueryLength) EXCEPT !.arcount = 0]
    IN IF ts = << >>
       THEN [packet |-> q, tsig |-> ts, query_id |-> q.id]
       ELSE LET t4 == update(sign(prepare(init_query_id(ts[1], qid))),
                             q, q.limit)
                q5 == append_rr(t4, q)
            IN [packet |-> [q5 EXCEPT !.arcount = 1],
                tsig |-> <<t4>>, query_id |-> q.id]

(* init_query: the header with a random id, AA and one question; with  *)
(* a TSIG record the query is signed and the TSIG RR appended           *)
init_query(type, rnd, ts) ==
    LET qid == rnd % 65536
        q == [Message(qid, FALSE, TRUE,
                      <<[owner |-> Zone, type |-> type, klass |-> "IN"]>>,
                      << >>, QueryLength) EXCEPT !.arcount = 0]
    IN IF ts = << >>
       THEN [packet |-> q, tsig |-> ts, query_id |-> q.id]
       ELSE LET t1 == init_query_id(ts[1], qid)
                t2 == prepare(t1)
                t3 == update(t2, q, q.limit)
                t4 == sign(t3)
                q5 == append_rr(t4, q)
            IN [packet |-> [q5 EXCEPT !.arcount = 1],
                tsig |-> <<t4>>, query_id |-> q.id]

(* variant: ARCOUNT still counts the TSIG RR when the packet is digested *)
StripArcount_Keep(p) == p

(* ARCOUNT_SET(packet, ARCOUNT(packet) - 1) *)
StripArcount(p) == [p EXCEPT !.arcount = @ - 1]

(* variant: the result of tsig_verify is not looked at *)
NotAuthentic_Never(v) == FALSE

(* !tsig_verify(tsig) *)
NotAuthentic(v) == v.status # "OK"

(* check_response_tsig on the octets of a packet *)
check_response_octets(p, ts) ==
    IF ts = << >> THEN [err |-> "", tsig |-> ts, packet |-> p]
    ELSE LET f == find_rr(ts[1], p) IN
    IF f.status = "NOT_PRESENT"
    THEN IF f.response_count = 0
         THEN [err |-> "required TSIG not present", tsig |-> <<f>>,
               packet |-> p]
         ELSE IF f.updates_since_last_prepare > MaxUntagged
         THEN [err |-> "too many response packets without TSIG",
               tsig |-> <<f>>, packet |-> p]
         ELSE [err |-> "", tsig |-> <<update(f, p, p.limit)>>, packet |-> p]
    ELSE LET s == StripArcount(p) IN
         IF f.status = "ERROR"
         THEN [err |-> "TSIG record is not correct", tsig |-> <<f>>,
               packet |-> s]
         ELSE IF f.error_code # "NOERROR"
         THEN [err |-> "TSIG error code", tsig |-> <<f>>, packet |-> s]
         ELSE LET v == verify(update(f, s, f.position))
              IN IF NotAuthentic(v)
                 THEN [err |-> "TSIG record did not authenticate",
                       tsig |-> <<v>>, packet |-> s]
                 ELSE [err |-> "", tsig |-> <<prepare(v)>>, packet |-> s]

(* the peer: it verifies the query under its key, then signs the       *)
(* response over the MAC of the query and the response                 *)
VerifyOctets(rec, p) ==
    LET f == find_rr(rec, p)
    IN IF f.status # "OK" THEN f
       ELSE verify(update(f, StripArcount(p), f.position))

PeerVerifies(key, q) == VerifyOctets(prepare(init_record(key)), q)

PeerSigns(rec, id, type, an) ==
    LET r == Message(id, TRUE, TRUE,
                     <<[owner |-> Zone, type |-> type, klass |-> "IN"]>>,
                     an, TsigPosition)
        t == sign(update(prepare(rec), r, r.limit))
    IN [append_rr(t, r) EXCEPT !.arcount = 1]

(* what can be altered in a signed packet on its way *)
Alterations == {"flags", "answer", "time_signed", "mac", "error_code"}

Altered(p, a) ==
    IF a = "flags" THEN [p EXCEPT !.flags = {"RD"}]
    ELSE IF a = "answer" THEN [p EXCEPT !.an[1].serial = @ + 1]
    ELSE IF a = "time_signed" THEN [p EXCEPT !.tsig[1].time_signed = "t2"]
    ELSE IF a = "mac" THEN [p EXCEPT !.tsig[1].mac.bits = "altered"]
    ELSE [p EXCEPT !.tsig[1].error_code = "BADTIME"]

NoSigning ==
    [pc |-> "start", type |-> "SOA", tsig |-> << >>, query |-> << >>,
     peer |-> "", reply |-> << >>, altered |-> "", errmsg |-> ""]

InitSigning == signing = NoSigning

(* main: with a key file the key is read and the TSIG record set up *)
ReadKey(ts) ==
    /\ signing.pc = "start"
    /\ signing' = [signing EXCEPT !.pc = "idle", !.tsig = ts]
    /\ UNCHANGED <<xfervars, sockvars, trievars, notify, nsd>>

(* check_serial and axfr up to the wait for the response: init_query,  *)
(* send_query and, with a TSIG record, tsig_prepare                     *)
SendSigned(rnd, sent) ==
    /\ signing.pc = "idle"
    /\ LET ts == IF signing.tsig = << >> THEN << >>
                 ELSE <<[signing.tsig[1] EXCEPT !.calls = << >>]>>
           q == init_query(signing.type, rnd, ts)
       IN IF ~sent
          THEN signing' = [signing EXCEPT !.pc = "exit", !.tsig = q.tsig,
                                          !.query = <<q.packet>>,
                                          !.peer = "", !.reply = << >>,
                                          !.altered = "",
                                          !.errmsg = "network write failed"]
          ELSE signing' = [signing EXCEPT
                   !.pc = "sent", !.query = <<q.packet>>,
                   !.peer = "", !.reply = << >>, !.altered = "",
                   !.tsig = IF q.tsig = << >> THEN << >>
                            ELSE <<prepare(q.tsig[1])>>]
    /\ UNCHANGED <<xfervars, sockvars, trievars, notify, nsd>>

(* the peer answers: with the key it verifies the query and signs *)
PeerReplies(an) ==
    /\ signing.pc = "sent"
    /\ LET q == signing.query[1]
           plain == Message(q.id, TRUE, TRUE, q.qd, an, TsigPosition)
       IN IF signing.tsig = << >>
          THEN signing' = [signing EXCEPT !.pc = "replied",
                                          !.reply = <<plain>>]
          ELSE LET v == PeerVerifies(signing.tsig[1].key, q)
               IN signing' = [signing EXCEPT
                      !.pc = "replied", !.peer = v.status,
                      !.reply = <<PeerSigns(v, q.id, signing.type, an)>>]
    /\ UNCHANGED <<xfervars, sockvars, trievars, notify, nsd>>

(* an octet of the signed response is altered on its way *)
Alter(a) ==
    /\ signing.pc = "replied"
    /\ signing.altered = ""
    /\ signing.tsig # << >>
    /\ signing' = [signing EXCEPT !.altered = a,
                                  !.reply = <<Altered(signing.reply[1], a)>>]
    /\ UNCHANGED <<xfervars, sockvars, trievars, notify, nsd>>

(* the response is checked: check_response_tsig; error() ends the      *)
(* process, after the SOA response the AXFR query is next               *)
CheckSigned ==
    /\ signing.pc = "replied"
    /\ LET c == check_response_octets(signing.reply[1], signing.tsig)
       IN signing' = [signing EXCEPT
              !.tsig = c.tsig, !.reply = <<c.packet>>, !.errmsg = c.err,
              !.pc = IF c.err # "" THEN "exit"
                     ELSE IF signing.type = "SOA" THEN "idle" ELSE "done",
              !.type = IF c.err = "" THEN "AXFR" ELSE @]
    /\ UNCHANGED <<xfervars, sockvars, trievars, notify, nsd>>

Answers == {<<RR(Zone, "SOA", "IN", 1)>>, <<RR(Zone, "SOA", "IN", 2)>>}

NextSign ==
    \/ \E ts \in {<< >>} \cup {<<init_record(k)>> : k \in SigKeys} : ReadKey(ts)
    \/ \E rnd \in Randoms, sent \in BOOLEAN : SendSigned(rnd, sent)
    \/ \E an \in Answers : PeerReplies(an)
    \/ \E a \in Alterations : Alter(a)
    \/ CheckSigned

InitSocket ==
    /\ io_pc = "idle"
    /\ io_size = 0
    /\ io_total = 0
    /\ io_body = 0
    /\ io_errno = ""
    /\ io_errmsg = ""
    /\ io_eof = FALSE
    /\ timeout_flag = FALSE
    /\ alarm_set = FALSE
    /\ alarm_blocked = FALSE

config == <<tsig_key, first_transfer, last_serial>>

----------------------------------------------------------------------------
(* Response packets *)

NoTsigRR ==
    [present |-> FALSE, parses |-> TRUE, key_ok |-> TRUE,
     error_code |-> "NOERROR", mac |-> NoMac, position |-> 0]

SignedRR(mac) ==
    [present |-> TRUE, parses |-> TRUE, key_ok |-> TRUE,
     error_code |-> "NOERROR", mac |-> mac, position |-> TsigPosition]

Packet(limit, qr, tc, id, rcode, qd, an, ts) ==
    [limit |-> limit, qr |-> qr, tc |-> tc, id |-> id, rcode |-> rcode,
     qd |-> qd, an |-> an, arcount |-> IF ts.present THEN 1 ELSE 0, tsig |-> ts]

NoPacket ==
    Packet(0, FALSE, FALSE, 0, "NOERROR", << >>, << >>, NoTsigRR)

WellFormed(id, qd, an, ts) ==
    Packet(PacketLimit, TRUE, FALSE, id, "NOERROR", qd, an, ts)

(* The MAC a signer holding the key puts on the n-th packet: over the       *)
(* previous MAC, the packets sent unsigned since, and this packet without   *)
(* its TSIG RR (RFC 2845, 4.4)                                              *)
ValidMac(n) ==
    Hmac(<<m_mac>> \o m_pending \o <<PktItem(n, TsigPosition, 0)>>)

GoodTsigRRs(n) ==
    IF tsig_key THEN {NoTsigRR, SignedRR(ValidMac(n))} ELSE {NoTsigRR}

OtherTsigRRs(n) ==
    IF tsig_key
    THEN {SignedRR(NoMac),
          SignedRR(Hmac(<<m_mac, PktItem(n, TsigPosition, 0)>>)),
          SignedRR(Hmac(<<m_mac>> \o m_pending
                            \o <<PktItem(n, TsigPosition, 1)>>)),
          [SignedRR(ValidMac(n)) EXCEPT !.key_ok = FALSE],
          [SignedRR(ValidMac(n)) EXCEPT !.error_code = "BADSIG"],
          [NoTsigRR EXCEPT !.parses = FALSE]}
    ELSE {}

Question(type) == RR(Zone, type, "IN", 0)

BadQuestions(type) ==
    {<<RR("other", type, "IN", 0)>>, <<RR(Zone, "A", "CH", 0)>>,
     <<RR(Zone, "MALFORMED", "IN", 0)>>,
     <<Question(type), Question(type)>>, << >>}

(* Packets whose header is off in any combination of fields *)
BadHeaders(id, type, an, n) ==
    {Packet(l, qr, tc, i, rc, <<Question(type)>>, an, ts) :
        l \in {QHEADERSZ, PacketLimit}, qr \in BOOLEAN, tc \in BOOLEAN,
        i \in QueryIds, rc \in {"NOERROR", "SERVFAIL"}, ts \in GoodTsigRRs(n)}

(* Responses to the SOA query *)
ProbePackets(id, n) ==
    {WellFormed(id, <<Question("SOA")>>, an, ts) :
        an \in SeqsUpTo(ProbeRRs, MaxAnswers), ts \in GoodTsigRRs(n)}
    \cup {WellFormed(id, qd, <<RR(Zone, "SOA", "IN", MaxSerial)>>, ts) :
        qd \in BadQuestions("SOA"), ts \in GoodTsigRRs(n)}
    \cup {WellFormed(id, <<Question("SOA")>>, <<RR(Zone, "SOA", "IN", MaxSerial)>>, ts) :
        ts \in OtherTsigRRs(n)}
    \cup BadHeaders(id, "SOA", <<RR(Zone, "SOA", "IN", MaxSerial)>>, n)

(* A conformant response to the SOA query announcing serial 1 *)
PlainProbePackets(id, n) ==
    {WellFormed(id, <<Question("SOA")>>, <<RR(Zone, "SOA", "IN", 1)>>, ts) :
        ts \in GoodTsigRRs(n) \ (IF tsig_key THEN {NoTsigRR} ELSE {})}

(* AXFR responses: every answer section within the record budget *)
StreamPackets(id, n) ==
    {WellFormed(id, qd, an, ts) :
        qd \in BadQuestions("AXFR") \cup {<<Question("AXFR")>>},
        an \in SeqsUpTo(AxfrRRs, MaxRRs - Len(received)),
        ts \in GoodTsigRRs(n)}
    \cup BadHeaders(id, "AXFR", <<RR(Zone, "A", "IN", 0)>>, n)

(* AXFR responses of one record each, with every kind of TSIG RR *)
RunPackets(id, n) ==
    {WellFormed(id, <<Question("AXFR")>>, <<rr>>, ts) :
        rr \in {RR(Zone, "SOA", "IN", 1), RR(Zone, "A", "IN", 0)},
        ts \in GoodTsigRRs(n) \cup OtherTsigRRs(n)}

(* AXFR responses of at most one record with every header, question and   *)
(* section count                                                           *)
HeaderPackets(id, n) ==
    UNION {BadHeaders(id, "AXFR", <<rr>>, n) :
              rr \in {RR(Zone, "SOA", "IN", 1), RR(Zone, "A", "IN", 0)}}
    \cup {WellFormed(id, qd, an, ts) :
              qd \in BadQuestions("AXFR") \cup {<<Question("AXFR")>>},
              an \in SeqsUpTo({RR(Zone, "SOA", "IN", 1), RR(Zone, "A", "IN", 0)}, 1),
              ts \in GoodTsigRRs(n)}

(* nsd-notify: the NOTIFY packet of main goes to every address, each on *)
(* a socket of its own; notify_host by the system call it waits in      *)
NumHosts == 3

(* the timeouts that one host lets pass before it answers or fails *)
MaxTimeouts == 3

timeout_retry == 5

(* the packet main builds and flips: sendto reads it from position to *)
(* limit and moves neither                                             *)
NotifyQuery ==
    [id |-> 42, opcode |-> "NOTIFY", qr |-> FALSE, aa |-> TRUE,
     rcode |-> "OK", qdcount |-> 1, position |-> 0, limit |-> QueryLength]

Datagram(q) ==
    [id |-> q.id, opcode |-> q.opcode, qr |-> q.qr, aa |-> q.aa,
     rcode |-> q.rcode, qdcount |-> q.qdcount,
     first |-> q.position, len |-> q.limit - q.position]

(* what recvfrom can return: -1, or a packet in the answer buffer *)
NotifyReplies ==
    {[received |-> -1, id |-> 0, opcode |-> "QUERY", qr |-> FALSE,
      aa |-> FALSE, rcode |-> "OK"]}
    \cup [received : {QHEADERSZ}, id : {42, 43},
          opcode : {"NOTIFY", "QUERY"}, qr : BOOLEAN, aa : BOOLEAN,
          rcode : {"OK", "REFUSE"}]

(* variant: a timeout counts as a reply *)
GotAck_OnTimeout(retval) == retval >= 0

(* the loop of notify_host ends when select reports the socket readable *)
GotAck(retval) == retval = 1

(* the check of the answer *)
Acknowledges(q, a) ==
    /\ q.id = a.id
    /\ a.opcode = "NOTIFY"
    /\ a.aa
    /\ a.qr
    /\ a.rcode = "OK"

NoNotify ==
    [pc |-> "socket", host |-> 1, udp_s |-> "none", q |-> NotifyQuery,
     sends |-> 0, timeouts |-> 0, tv |-> 0, readable |-> FALSE,
     reads |-> 0, closes |-> 0, sent |-> {}, warning |-> ""]

InitNotify == notify = NoNotify

(* main: the socket for the next address; without one the address is *)
(* skipped                                                            *)
NotifySocket(ok) ==
    /\ notify.pc = "socket"
    /\ notify.host <= NumHosts
    /\ notify' = IF ok
                 THEN [NoNotify EXCEPT !.pc = "send", !.host = notify.host,
                                       !.udp_s = "open"]
                 ELSE [NoNotify EXCEPT !.host = notify.host + 1]
    /\ UNCHANGED <<xfervars, sockvars, trievars, signing, nsd>>

(* notify_host: sendto; a failure is warned about and ends the host *)
NotifySend(ok) ==
    /\ notify.pc = "send"
    /\ notify' = IF ok
                 THEN [notify EXCEPT !.pc = "select", !.sends = @ + 1,
                                     !.sent = @ \cup {Datagram(notify.q)},
                                     !.tv = timeout_retry]
                 ELSE [notify EXCEPT !.pc = "socket", !.host = @ + 1,
                                     !.udp_s = "closed", !.closes = @ + 1,
                                     !.warning = "send failed"]
    /\ UNCHANGED <<xfervars, sockvars, trievars, signing, nsd>>

(* notify_host: select returns -1, 0 after the timeout, or 1 *)
NotifySelect(retval) ==
    /\ notify.pc = "select"
    /\ retval = 0 => notify.timeouts < MaxTimeouts
    /\ notify' =
         IF retval = -1
         THEN [notify EXCEPT !.pc = "socket", !.host = @ + 1,
                             !.udp_s = "closed", !.closes = @ + 1,
                             !.warning = "error waiting for reply"]
         ELSE [notify EXCEPT
                  !.timeouts = IF retval = 0 THEN @ + 1 ELSE @,
                  !.warning = IF retval = 0 THEN "timeout expired" ELSE @,
                  !.readable = retval = 1,
                  !.pc = IF GotAck(retval) THEN "recv" ELSE "send"]
    /\ UNCHANGED <<xfervars, sockvars, trievars, signing, nsd>>

(* notify_host: recvfrom, the check of the answer and close *)
NotifyRecv(a) ==
    /\ notify.pc = "recv"
    /\ notify' = [notify EXCEPT
                     !.pc = "socket", !.host = @ + 1, !.reads = @ + 1,
                     !.udp_s = "closed", !.closes = @ + 1,
                     !.warning = IF a.received = -1 THEN "recv failed"
                                 ELSE IF Acknowledges(notify.q, a) THEN @
                                 ELSE "bad reply"]
    /\ UNCHANGED <<xfervars, sockvars, trievars, signing, nsd>>

(* main: exit(0) after the last address *)
NotifyExit ==
    /\ notify.pc = "socket"
    /\ notify.host > NumHosts
    /\ notify' = [notify EXCEPT !.pc = "exit"]
    /\ UNCHANGED <<xfervars, sockvars, trievars, signing, nsd>>

NextNotify ==
    \/ \E ok \in BOOLEAN : NotifySocket(ok)
    \/ \E ok \in BOOLEAN : NotifySend(ok)
    \/ \E retval \in {-1, 0, 1} : NotifySelect(retval)
    \/ \E a \in NotifyReplies : NotifyRecv(a)
    \/ NotifyExit

(* nsd: main from the fork to the server loop, and the signals that    *)
(* arrive meanwhile                                                    *)
Signals == <<"SIGTERM", "SIGHUP", "SIGINT", "SIGILL", "SIGUSR1", "SIGALRM",
             "SIGCHLD">>

Hints == <<"child", "reload", "quit", "shutdown", "stats", "statsusr">>

(* sig_handler: the hints that the signal sets *)
sig_handler(server_kind, sig) ==
    IF server_kind # "MAIN"
    THEN IF sig = "SIGCHLD" THEN {"child"}
         ELSE IF sig \in {"SIGHUP", "SIGINT", "SIGTERM"} THEN {"quit"}
         ELSE IF sig \in {"SIGILL", "SIGUSR1"} THEN {"statsusr"}
         ELSE {}
    ELSE IF sig = "SIGCHLD" THEN {"child"}
         ELSE IF sig = "SIGHUP" THEN {"reload"}
         ELSE IF sig = "SIGALRM" THEN {"stats"}
         ELSE IF sig \in {"SIGILL", "SIGUSR1"} THEN {"statsusr"}
         ELSE IF sig = "SIGINT" THEN {"quit"}
         ELSE {"shutdown"}

(* nsd is a static object: every hint starts as 0 *)
NoNsd ==
    [pc |-> "fork", server_kind |-> "MAIN", mode |-> "", handlers |-> {},
     hints |-> {}, cleared |-> 0]

InitNsd == nsd = NoNsd

(* main: debugging makes the process main and child server in one, *)
(* otherwise it forks and detaches                                  *)
NsdFork(debug) ==
    /\ nsd.pc = "fork"
    /\ nsd' = [nsd EXCEPT !.pc = "sigaction",
                          !.server_kind = IF debug THEN "BOTH" ELSE @]
    /\ UNCHANGED <<xfervars, sockvars, trievars, signing, notify>>

(* main: the next sigaction; after the last, getpid and writepid *)
NsdSigaction ==
    /\ nsd.pc = "sigaction"
    /\ LET i == Cardinality(nsd.handlers) + 1
       IN nsd' = [nsd EXCEPT !.handlers = @ \cup {Signals[i]},
                             !.pc = IF i = Len(Signals) THEN "initialize"
                                    ELSE @]
    /\ UNCHANGED <<xfervars, sockvars, trievars, signing, notify>>

(* main: mode and the six hints are assigned, one store at a time *)
NsdInitialize ==
    /\ nsd.pc = "initialize"
    /\ nsd' = IF nsd.mode = ""
              THEN [nsd EXCEPT !.mode = "NSD_RUN"]
              ELSE [nsd EXCEPT !.hints = @ \ {Hints[nsd.cleared + 1]},
                               !.cleared = @ + 1,
                               !.pc = IF nsd.cleared + 1 = Len(Hints)
                                      THEN "server_init" ELSE @]
    /\ UNCHANGED <<xfervars, sockvars, trievars, signing, notify>>

(* main: server_init, then server_main or server_child *)
NsdServerInit(ok) ==
    /\ nsd.pc = "server_init"
    /\ nsd' = [nsd EXCEPT !.pc = IF ok THEN "server" ELSE "exit"]
    /\ UNCHANGED <<xfervars, sockvars, trievars, signing, notify>>

(* a signal arrives: sig_handler runs with every signal blocked; without *)
(* a handler the default action ends the process, SIGCHLD is ignored     *)
NsdSignal(sig) ==
    /\ nsd.pc \notin {"exit", "killed"}
    /\ nsd' = IF sig \in nsd.handlers
              THEN [nsd EXCEPT
                       !.hints = @ \cup sig_handler(nsd.server_kind, sig)]
              ELSE IF sig = "SIGCHLD" THEN nsd
              ELSE [nsd EXCEPT !.pc = "killed"]
    /\ UNCHANGED <<xfervars, sockvars, trievars, signing, notify>>

AllSignals == {Signals[i] : i \in 1 .. Len(Signals)}

NextNsd ==
    \/ \E debug \in BOOLEAN : NsdFork(debug)
    \/ NsdSigaction
    \/ NsdInitialize
    \/ \E ok \in BOOLEAN : NsdServerInit(ok)
    \/ \E sig \in AllSignals : NsdSignal(sig)

----------------------------------------------------------------------------
(* Initial states: main up to the loop over the servers *)

Init ==
    /\ InitSocket
    /\ InitTrie
    /\ InitSigning
    /\ InitNotify
    /\ InitNsd
    /\ pc = "connect"
    /\ exit_code = NoExit
    /\ errmsg = ""
    /\ server = 1
    /\ tsig_key \in BOOLEAN
    /\ first_transfer \in BOOLEAN
    /\ last_serial \in IF first_transfer THEN {0} ELSE Serials
    /\ zone_serial = 0
    /\ probe_id = 0
    /\ query_id = 0
    /\ done = FALSE
    /\ rr_count = 0
    /\ packets_received = 0
    /\ tsig = tsig_init_record
    /\ zone_file_open = FALSE
    /\ zone_file = << >>
    /\ axfr_sent = 0
    /\ serial_rc = "none"
    /\ received = << >>
    /\ last_pkt = NoPacket
    /\ tsig_verdict = "none"
    /\ q_responses = 0
    /\ contacted = << >>
    /\ m_mac = NoPriorMac
    /\ m_pending = << >>
    /\ m_valid = NoMac

(* error(): log and exit(XFER_FAIL) *)
error(msg) ==
    /\ pc' = "exit"
    /\ exit_code' = XFER_FAIL
    /\ errmsg' = msg

Exit(code) ==
    /\ pc' = "exit"
    /\ exit_code' = code
    /\ errmsg' = ""

(* What the signer remembers after sending packet p as the n-th *)
SignerSent(p, n) ==
    /\ m_mac' = IF tsig_key /\ p.tsig.present THEN MacItem(ValidMac(n)) ELSE m_mac
    /\ m_pending' = IF ~tsig_key \/ p.tsig.present THEN << >>
                    ELSE Append(m_pending, PktItem(n, p.limit, p.arcount))
    /\ m_valid' = IF tsig_key /\ p.tsig.present THEN ValidMac(n) ELSE NoMac

(* What the signer remembers after the query with TSIG record t arrived *)
SignerAsked(t) ==
    /\ m_mac' = IF tsig_key THEN MacItem(t.mac) ELSE NoPriorMac
    /\ m_pending' = << >>
    /\ UNCHANGED m_valid

----------------------------------------------------------------------------
(* main: the loop over the servers *)

(* getaddrinfo, socket or connect fails: the next server is tried *)
ConnectFail ==
    /\ pc = "connect"
    /\ server <= NumServers
    /\ server' = server + 1
    /\ UNCHANGED <<pc, exit_code, errmsg, config, restvars, zone_serial, probe_id,
                   query_id, done, rr_count, packets_received, tsig,
                   zone_file_open, zone_file, axfr_sent, serial_rc, received,
                   last_pkt, tsig_verdict, q_responses, contacted, m_mac,
                   m_pending, m_valid>>

(* no server left: "cannot contact an authoritative server" *)
NoServerLeft ==
    /\ pc = "connect"
    /\ server > NumServers
    /\ Exit(XFER_FAIL)
    /\ UNCHANGED <<server, config, restvars, zone_serial, probe_id, query_id, done,
                   rr_count, packets_received, tsig, zone_file_open, zone_file,
                   axfr_sent, serial_rc, received, last_pkt, tsig_verdict,
                   q_responses, contacted, m_mac, m_pending, m_valid>>

(* connect succeeds; check_serial builds and sends the SOA query *)
SendProbe(id, sent) ==
    /\ pc = "connect"
    /\ server <= NumServers
    /\ contacted' = Append(contacted, server)
    /\ q_responses' = 0
    /\ LET t == IF tsig_key THEN QuerySigned(tsig) ELSE tsig IN
       IF ~sent
       THEN /\ error("network write failed")
            /\ tsig' = t
            /\ probe_id' = id
            /\ UNCHANGED <<m_mac, m_pending, m_valid>>
       ELSE /\ pc' = "probe"
            /\ tsig' = IF tsig_key THEN tsig_prepare(t) ELSE t
            /\ probe_id' = id
            /\ SignerAsked(t)
            /\ UNCHANGED <<exit_code, errmsg>>
    /\ UNCHANGED <<server, config, restvars, zone_serial, query_id, done, rr_count,
                   packets_received, zone_file_open, zone_file, axfr_sent,
                   serial_rc, received, last_pkt, tsig_verdict>>

(* receive_response fails: every failure of read_socket and a response      *)
(* longer than the buffer end in error(); an interrupted read (EINTR) is a  *)
(* read error, so the timeout branch of receive_response is never taken     *)
ReceiveFail(msg) ==
    /\ pc \in {"probe", "axfr"}
    /\ error(msg)
    /\ serial_rc' = IF pc = "probe" THEN "ERROR" ELSE serial_rc
    /\ UNCHANGED <<server, config, restvars, zone_serial, probe_id, query_id, done,
                   rr_count, packets_received, tsig, zone_file_open, zone_file,
                   axfr_sent, received, last_pkt, tsig_verdict, q_responses,
                   contacted, m_mac, m_pending, m_valid>>

ReceiveErrors ==
    {"network read failed", "network read failed: Connection closed by peer",
     "network read failed: Interrupted system call",
     "response size exceeds maximum"}

(* outcome of check_response_tsig as recorded for the last packet *)
TsigOutcome(reached, c) ==
    IF ~reached \/ ~tsig_key THEN "none"
    ELSE IF c.err = "" THEN "accepted" ELSE c.err

(* variant: every non-negative result starts the transfer *)
UpToDate_Never(rc) == FALSE

(* main: rc == 0, the zone is up to date *)
UpToDate(rc) == rc = 0

(* main after check_serial returned 1: fopen, print_zone_header, axfr() up  *)
(* to handle_axfr_response                                                  *)
AxfrQuery(p, n, rt, id, opened, sent) ==
    IF ~opened
    THEN /\ error("cannot open or create zone file")
         /\ tsig' = rt
         /\ SignerSent(p, n)
         /\ q_responses' = q_responses + 1
         /\ UNCHANGED <<query_id, zone_file_open, zone_file, axfr_sent>>
    ELSE LET t == IF tsig_key THEN QuerySigned(rt) ELSE rt IN
         /\ zone_file_open' = TRUE
         /\ zone_file' = << >>
         /\ query_id' = id
         /\ q_responses' = 0
         /\ IF ~sent
            THEN /\ error("network write failed")
                 /\ tsig' = t
                 /\ SignerSent(p, n)
                 /\ UNCHANGED axfr_sent
            ELSE /\ pc' = "axfr"
                 /\ tsig' = IF tsig_key THEN tsig_prepare(t) ELSE t
                 /\ axfr_sent' = axfr_sent + 1
                 /\ m_mac' = IF tsig_key THEN MacItem(t.mac) ELSE NoPriorMac
                 /\ m_pending' = << >>
                 /\ m_valid' = IF tsig_key /\ p.tsig.present
                               THEN ValidMac(n) ELSE NoMac
                 /\ UNCHANGED <<exit_code, errmsg>>

(* the SOA response arrives: the rest of check_serial, then main's branch   *)
(* on its result; for a newer zone the file is opened and axfr() sends the  *)
(* AXFR query                                                               *)
ProbeResponse(p) ==
    /\ pc = "probe"
    /\ LET n == packets_received + 1
           r == check_serial(p, probe_id, tsig, tsig_key, n,
                             first_transfer, last_serial, zone_serial)
           c == check_response_tsig(p, tsig, tsig_key, n)
       IN
       /\ packets_received' = n
       /\ last_pkt' = [p EXCEPT !.arcount =
                          IF ProbeHeaderError(p, probe_id) = "" THEN c.arcount ELSE @]
       /\ tsig_verdict' = TsigOutcome(ProbeHeaderError(p, probe_id) = "", c)
       /\ zone_serial' = r.zone_serial
       /\ serial_rc' = IF r.rc = 1 THEN "NEWER"
                       ELSE IF r.rc = 0 THEN "UP_TO_DATE" ELSE "ERROR"
       /\ IF r.rc = 0 - 1
          THEN /\ error(r.err)
               /\ tsig' = r.tsig
               /\ SignerSent(p, n)
               /\ q_responses' = q_responses + 1
               /\ UNCHANGED <<query_id, zone_file_open, zone_file, axfr_sent>>
          ELSE IF UpToDate(r.rc)
          THEN /\ Exit(XFER_UPTODATE)
               /\ tsig' = r.tsig
               /\ SignerSent(p, n)
               /\ q_responses' = q_responses + 1
               /\ UNCHANGED <<query_id, zone_file_open, zone_file, axfr_sent>>
          ELSE \E id \in QueryIds, opened \in BOOLEAN, sent \in BOOLEAN :
               AxfrQuery(p, n, r.tsig, id, opened, sent)
    /\ UNCHANGED <<server, config, restvars, probe_id, done, rr_count, received,
                   contacted>>

(* one AXFR response arrives: one turn of the loop of handle_axfr_response; *)
(* when parse_response sets done, axfr() returns 1 and main exits; when     *)
(* print_rr fails, axfr() returns 0 and main closes the zone file and the   *)
(* socket and goes on to the next address                                   *)
AxfrResponse(p) ==
    /\ pc = "axfr"
    /\ LET n == packets_received + 1
           herr == AxfrHeaderError(p, query_id)
           c == check_response_tsig(p, tsig, tsig_key, n)
           r == parse_response(p, rr_count, zone_file)
       IN
       /\ packets_received' = n
       /\ received' = received \o p.an
       /\ last_pkt' = [p EXCEPT !.arcount = IF herr = "" THEN c.arcount ELSE @]
       /\ tsig_verdict' = TsigOutcome(herr = "", c)
       /\ q_responses' = q_responses + 1
       /\ SignerSent(p, n)
       /\ IF herr # ""
          THEN /\ error(herr)
               /\ UNCHANGED <<tsig, done, rr_count, zone_file>>
          ELSE IF c.err # ""
          THEN /\ error(c.err)
               /\ tsig' = c.tsig
               /\ UNCHANGED <<done, rr_count, zone_file>>
          ELSE /\ tsig' = c.tsig
               /\ rr_count' = r.rr_count
               /\ zone_file' = r.zone_file
               /\ done' = r.done
               /\ IF r.err # "" THEN error(r.err)
                  ELSE IF r.failed
                  THEN /\ pc' = "connect"
                       /\ UNCHANGED <<exit_code, errmsg>>
                  ELSE IF r.done THEN Exit(XFER_SUCCESS)
                  ELSE UNCHANGED <<pc, exit_code, errmsg>>
       /\ LET next == herr = "" /\ c.err = "" /\ r.err = "" /\ r.failed
          IN /\ server' = IF next THEN server + 1 ELSE server
             /\ zone_file_open' = IF next THEN FALSE ELSE zone_file_open
    /\ UNCHANGED <<config, restvars, zone_serial, probe_id, query_id,
                   axfr_sent, serial_rc, contacted>>

----------------------------------------------------------------------------
(* The driver with every kind of SOA response, and AXFR responses of one    *)
(* record each                                                              *)

Next ==
    \/ ConnectFail
    \/ NoServerLeft
    \/ /\ pc = "connect"
       /\ \E id \in QueryIds, sent \in BOOLEAN : SendProbe(id, sent)
    \/ /\ pc \in {"probe", "axfr"}
       /\ \E msg \in ReceiveErrors : ReceiveFail(msg)
    \/ /\ pc = "probe"
       /\ \E p \in ProbePackets(probe_id, packets_received + 1) : ProbeResponse(p)
    \/ /\ pc = "axfr"
       /\ Len(received) < MaxRRs
       /\ \E p \in RunPackets(query_id, packets_received + 1) : AxfrResponse(p)

Spec == Init /\ [][Next]_vars

(* The AXFR stream after a conformant SOA response, without TSIG: every     *)
(* answer section, question section and header within the record budget     *)

InitStream == Init /\ ~tsig_key /\ first_transfer

NextStream ==
    \/ /\ pc = "connect"
       /\ SendProbe(1, TRUE)
    \/ /\ pc = "probe"
       /\ \E p \in PlainProbePackets(probe_id, packets_received + 1) :
             ProbeResponse(p)
    \/ /\ pc = "axfr"
       /\ Len(received) < MaxRRs
       /\ \E p \in StreamPackets(query_id, packets_received + 1) : AxfrResponse(p)

SpecStream == InitStream /\ [][NextStream]_vars

(* Long AXFR streams with a TSIG key: one record per packet, every kind of  *)
(* TSIG RR                                                                  *)

InitRun == Init /\ tsig_key /\ first_transfer

NextRun ==
    \/ /\ pc = "connect"
       /\ SendProbe(1, TRUE)
    \/ /\ pc = "probe"
       /\ \E p \in PlainProbePackets(probe_id, packets_received + 1) :
             ProbeResponse(p)
    \/ /\ pc = "axfr"
       /\ packets_received < MaxRun
       /\ \E p \in RunPackets(query_id, packets_received + 1) : AxfrResponse(p)

SpecRun == InitRun /\ [][NextRun]_vars

(* Every header, question section and section count, on the SOA response   *)
(* and on the packets of the AXFR stream, with and without a TSIG key       *)

InitHeader == Init /\ first_transfer

NextHeader ==
    \/ /\ pc = "connect"
       /\ \E id \in QueryIds : SendProbe(id, TRUE)
    \/ /\ pc = "probe"
       /\ \E p \in ProbePackets(probe_id, packets_received + 1) : ProbeResponse(p)
    \/ /\ pc = "axfr"
       /\ Len(received) < MaxRRs
       /\ \E p \in HeaderPackets(query_id, packets_received + 1) : AxfrResponse(p)

SpecHeader == InitHeader /\ [][NextHeader]_vars

----------------------------------------------------------------------------
(* send_query and receive_response, one system call at a time *)

Errnos == {"EAGAIN", "EINTR", "ECONNRESET"}

(* write_socket / read_socket: the only errno after which the call is      *)
(* made again                                                              *)
Retried(errno) == errno = "EAGAIN"

ReadErrorMsg(errno) ==
    IF errno = "EINTR" THEN "network read failed: Interrupted system call"
    ELSE "network read failed"

(* receive_response: the test after receive_response_no_timeout returned *)
TimedOut(result, flag) == ~result /\ flag

SockError(msg) ==
    /\ io_pc' = "exit"
    /\ io_errmsg' = msg

(* send_query: the length prefix is written first *)
SendQuery(len) ==
    /\ io_pc = "idle"
    /\ io_pc' = "send_size"
    /\ io_size' = SizeOctets
    /\ io_total' = 0
    /\ io_body' = len
    /\ UNCHANGED <<io_errno, io_errmsg, io_eof, timeout_flag, alarm_set,
                   alarm_blocked, xfervars, trievars, extvars>>

(* write() returns count > 0; after the message is written check_serial    *)
(* enters receive_response: timeout_flag = 0, alarm(), read of the prefix  *)
WriteSocket(count) ==
    /\ io_pc \in {"send_size", "send_body"}
    /\ count \in 1 .. io_size - io_total
    /\ io_errno' = ""
    /\ IF io_total + count < io_size
       THEN /\ io_total' = io_total + count
            /\ UNCHANGED <<io_pc, io_size, io_body, timeout_flag, alarm_set>>
       ELSE IF io_pc = "send_size"
       THEN /\ io_pc' = "send_body"
            /\ io_size' = io_body
            /\ io_total' = 0
            /\ UNCHANGED <<io_body, timeout_flag, alarm_set>>
       ELSE /\ io_pc' = "recv_size"
            /\ io_size' = SizeOctets
            /\ io_total' = 0
            /\ io_body' = 0
            /\ timeout_flag' = FALSE
            /\ alarm_set' = TRUE
    /\ UNCHANGED <<io_errmsg, io_eof, alarm_blocked, xfervars, trievars, extvars>>

(* write() returns -1 *)
WriteFails(errno) ==
    /\ io_pc \in {"send_size", "send_body"}
    /\ io_errno' = errno
    /\ IF Retried(errno) THEN UNCHANGED <<io_pc, io_errmsg>>
       ELSE SockError("network write failed")
    /\ UNCHANGED <<io_size, io_total, io_body, io_eof, timeout_flag, alarm_set,
                   alarm_blocked, xfervars, trievars, extvars>>

(* receive_response after receive_response_no_timeout returned 1 *)
Received ==
    /\ alarm_set' = FALSE
    /\ IF TimedOut(TRUE, timeout_flag)
       THEN SockError("timeout reading response, server unreachable?")
       ELSE io_pc' = "received" /\ UNCHANGED io_errmsg

(* read() returns count > 0; announced is the length the prefix holds *)
ReadSocket(count, announced) ==
    /\ io_pc \in {"recv_size", "recv_body"}
    /\ count \in 1 .. io_size - io_total
    /\ io_errno' = ""
    /\ IF io_total + count < io_size
       THEN /\ io_total' = io_total + count
            /\ UNCHANGED <<io_pc, io_size, io_body, io_errmsg, alarm_set>>
       ELSE IF io_pc = "recv_body"
       THEN /\ io_total' = io_total + count
            /\ Received
            /\ UNCHANGED <<io_size, io_body>>
       ELSE /\ io_body' = announced
            /\ IF announced > MaxBody
               THEN /\ SockError("response size exceeds maximum")
                    /\ io_total' = io_total + count
                    /\ UNCHANGED <<io_size, alarm_set>>
               ELSE IF announced = 0
               THEN /\ Received
                    /\ io_size' = 0
                    /\ io_total' = 0
               ELSE /\ io_pc' = "recv_body"
                    /\ io_size' = announced
                    /\ io_total' = 0
                    /\ UNCHANGED <<io_errmsg, alarm_set>>
    /\ UNCHANGED <<io_eof, timeout_flag, alarm_blocked, xfervars, trievars, extvars>>

(* read() returns 0 *)
ReadEOF ==
    /\ io_pc \in {"recv_size", "recv_body"}
    /\ io_eof' = TRUE
    /\ io_errno' = ""
    /\ SockError("network read failed: Connection closed by peer")
    /\ UNCHANGED <<io_size, io_total, io_body, timeout_flag, alarm_set,
                   alarm_blocked, xfervars, trievars, extvars>>

(* read() returns -1 *)
ReadFails(errno) ==
    /\ io_pc \in {"recv_size", "recv_body"}
    /\ io_errno' = errno
    /\ IF Retried(errno) THEN UNCHANGED <<io_pc, io_errmsg>>
       ELSE SockError(ReadErrorMsg(errno))
    /\ UNCHANGED <<io_size, io_total, io_body, io_eof, timeout_flag, alarm_set,
                   alarm_blocked, xfervars, trievars, extvars>>

(* SIGALRM: to_alarm sets timeout_flag; a read() blocked at that moment     *)
(* returns -1 with EINTR (the handler is installed without SA_RESTART)      *)
Alarm(blocked) ==
    /\ alarm_set
    /\ io_pc \in {"recv_size", "recv_body"}
    /\ timeout_flag' = TRUE
    /\ alarm_set' = FALSE
    /\ alarm_blocked' = blocked
    /\ IF blocked
       THEN /\ io_errno' = "EINTR"
            /\ IF Retried("EINTR") THEN UNCHANGED <<io_pc, io_errmsg>>
               ELSE SockError(ReadErrorMsg("EINTR"))
       ELSE UNCHANGED <<io_pc, io_errmsg, io_errno>>
    /\ UNCHANGED <<io_size, io_total, io_body, io_eof, xfervars, trievars, extvars>>

InitIO == Init /\ ~tsig_key /\ first_transfer

NextIO ==
    \/ \E len \in 1 .. MaxBody : SendQuery(len)
    \/ \E count \in 1 .. MaxBody : WriteSocket(count)
    \/ \E errno \in Errnos : WriteFails(errno)
    \/ \E count \in 1 .. MaxBody, announced \in 0 .. MaxBody + 1 :
          ReadSocket(count, announced)
    \/ ReadEOF
    \/ \E errno \in Errnos : ReadFails(errno)
    \/ \E blocked \in BOOLEAN : Alarm(blocked)

SpecIO == InitIO /\ [][NextIO]_vars

(* ------------------------------------------------------------------ *)
(* The radix tree test alone: udb_radix_test_file creates the tree and *)
(* test_ran_add_del inserts and deletes keys                           *)
(* ------------------------------------------------------------------ *)
InitTrieTest == Init /\ ~tsig_key /\ first_transfer

SpecTrie == InitTrieTest /\ [][NextTrie]_vars


(***************************************************************************)
(* Properties of the transfer                                              *)
(***************************************************************************)

(* the SOA record of the zone being transferred: owner, type and class *)
ZoneSOA(record) ==
    /\ Parses(record)
    /\ record.type = "SOA"
    /\ record.klass = "IN"
    /\ record.owner = Zone

(* positions after the first at which the stream holds the zone's SOA *)
Terminators == {i \in 2..Len(received) : ZoneSOA(received[i])}

FirstOf(S) == CHOOSE i \in S : \A j \in S : i <= j

Failed == pc = "exit" /\ exit_code = XFER_FAIL

(* C1: when the first answer record of the first AXFR response is not a   *)
(* SOA record with the zone's owner name and class IN, the transfer fails *)
(* and no record is delivered to the zone file.                           *)
C1_FirstRecordIsZoneSOA ==
    (received # << >> /\ ~ZoneSOA(received[1])) =>
        (Failed /\ zone_file = << >> /\ rr_count = 0)

(* C2: once the opening SOA has been delivered, the stream is complete    *)
(* exactly when a later SOA with the zone's owner and class IN has been   *)
(* read; that SOA is not delivered and neither is anything after it.      *)
C2_CompleteAtZoneSOA ==
    (rr_count > 0 /\ (pc = "axfr" \/ exit_code = XFER_SUCCESS)) =>
        /\ done <=> Terminators # {}
        /\ done => zone_file = SubSeq(received, 1, FirstOf(Terminators) - 1)

(* C10: a successful transfer has delivered exactly the answer records    *)
(* from the opening SOA of the zone up to, not including, the next SOA of *)
(* the zone, in stream order and once each, and rr_count is their number. *)
C10_DeliveredIsStreamPrefix ==
    exit_code = XFER_SUCCESS =>
        /\ ZoneSOA(received[1])
        /\ Terminators # {}
        /\ zone_file = SubSeq(received, 1, FirstOf(Terminators) - 1)
        /\ rr_count = Len(zone_file)


(* the last packet passed the header checks and went through               *)
(* check_response_tsig under a key                                         *)
TsigChecked == tsig_key /\ tsig_verdict # "none"

Accepted == tsig_verdict = "accepted"

(* number of packets without TSIG between the last verified TSIG and the   *)
(* signed packet that arrived last                                         *)
UntaggedBefore(p) == Len(p.tsig.mac) - 2

(* C3: under a TSIG key a transfer succeeds only when the packet holding   *)
(* the terminating SOA carried a TSIG that verified.                       *)
C3_FinalPacketSigned ==
    (tsig_key /\ exit_code = XFER_SUCCESS) =>
        (last_pkt.tsig.present /\ Accepted)

(* C4: under a TSIG key, when the first response to a query (the SOA probe *)
(* or the AXFR query) carries no TSIG, the process ends with the fatal     *)
(* error "required TSIG not present" and none of the records of that       *)
(* packet is delivered.                                                    *)
C4_FirstResponseNeedsTsig ==
    (tsig_key /\ q_responses = 1 /\ ~last_pkt.tsig.present) =>
        /\ Failed
        /\ zone_file = << >> /\ rr_count = 0
        /\ (TsigChecked /\ last_pkt.tsig.parses) =>
               errmsg = "required TSIG not present"

C4_Witness ==
    /\ tsig_key /\ q_responses = 1 /\ axfr_sent = 1
    /\ ~last_pkt.tsig.present /\ last_pkt.an # << >>
    /\ Failed /\ errmsg = "required TSIG not present"

(* C5: an accepted packet never leaves more than 100 updates since the     *)
(* last prepare, and a signed packet is accepted after k packets without   *)
(* TSIG only for k <= 100 (k = 101 fails).                                 *)
C5_AtMostHundredUntagged ==
    (TsigChecked /\ Accepted) =>
        /\ tsig.updates_since_last_prepare <= MaxUntagged
        /\ last_pkt.tsig.present => UntaggedBefore(last_pkt) <= MaxUntagged


C3_Witness ==
    /\ tsig_key /\ exit_code = XFER_SUCCESS
    /\ last_pkt.tsig.present /\ Accepted

(* C6: a response carrying a TSIG RR is accepted exactly when the TSIG     *)
(* status is not an error, its error code is NOERROR and its MAC is the    *)
(* one computed over the digest extended with the packet up to the TSIG    *)
(* RR; an accepted packet leaves a freshly prepared context (no update     *)
(* since the prepare, seeded with the new MAC), a rejected one is fatal.   *)
C6_SignedResponseVerdict ==
    (TsigChecked /\ last_pkt.tsig.present) =>
        /\ Accepted <=> /\ last_pkt.tsig.key_ok
                        /\ last_pkt.tsig.error_code = "NOERROR"
                        /\ last_pkt.tsig.mac = m_valid
        /\ (Accepted /\ q_responses > 0) =>
               /\ tsig.updates_since_last_prepare = 0
               /\ tsig.prior_mac = MacItem(m_valid)
               /\ tsig.digest = <<tsig.prior_mac>>
        /\ ~Accepted => (Failed /\ errmsg = tsig_verdict)

C6_Witness ==
    /\ TsigChecked /\ last_pkt.tsig.present /\ Accepted
    /\ pc = "axfr" /\ q_responses > 1 /\ UntaggedBefore(last_pkt) > 0

(* C7: while responses are awaited the digest holds, in order, the        *)
(* previous MAC and every packet received without TSIG since the last      *)
(* prepare, each in full; the MAC that verifies on a signed packet covers  *)
(* that window followed by the signed packet up to, not including, its    *)
(* TSIG RR and with the TSIG RR taken out of ARCOUNT.                      *)
C7_DigestWindow ==
    /\ (tsig_key /\ pc \in {"probe", "axfr"}) =>
           tsig.digest = <<m_mac>> \o m_pending
    /\ (TsigChecked /\ last_pkt.tsig.present /\ Accepted) =>
           LET w == last_pkt.tsig.mac
               n == packets_received
           IN /\ Len(w) >= 2
              /\ w[1].kind = "mac"
              /\ \A i \in 2 .. Len(w) - 1 :
                     w[i] = PktItem(n - Len(w) + i, PacketLimit, 0)
              /\ w[Len(w)] = PktItem(n, last_pkt.tsig.position, 0)

(* the stream of three packets signed on the first and the third succeeds *)
C7_Witness ==
    /\ tsig_key /\ exit_code = XFER_SUCCESS /\ q_responses = 3
    /\ last_pkt.tsig.present /\ UntaggedBefore(last_pkt) = 1 /\ Accepted
    /\ Len(zone_file) = 2


(* check_serial has returned on the response to the SOA query, which is    *)
(* the first packet the process receives                                   *)
ProbeChecked == packets_received = 1 /\ serial_rc # "none"

(* the response passes every validation that precedes the answer section *)
ProbeValidated ==
    /\ last_pkt.limit > QHEADERSZ
    /\ last_pkt.qr /\ ~last_pkt.tc
    /\ last_pkt.id = probe_id
    /\ last_pkt.rcode = "NOERROR"
    /\ Len(last_pkt.qd) = 1 /\ Len(last_pkt.an) > 0
    /\ tsig_key => Accepted
    /\ \A i \in 1 .. Len(last_pkt.qd) :
           Parses(last_pkt.qd[i]) /\ QuestionMatches(last_pkt.qd[i], "SOA")

(* answer records that are the zone's SOA and are reached by parsing *)
ProbeSOAs ==
    {i \in 1 .. Len(last_pkt.an) :
        ZoneSOA(last_pkt.an[i]) /\ \A j \in 1 .. i : Parses(last_pkt.an[j])}

ProbeSerial == last_pkt.an[FirstOf(ProbeSOAs)].serial

(* C8: check_serial returns NEWER exactly when the response is valid,      *)
(* holds the zone's SOA, and first_transfer is set or the SOA serial is    *)
(* greater than last_serial; UP_TO_DATE exactly when it is valid, holds    *)
(* the SOA, first_transfer is not set and the serial is at most            *)
(* last_serial; ERROR (fatal) when validation fails or no SOA is found.    *)
C8_SerialVerdict ==
    ProbeChecked =>
        LET found == ProbeValidated /\ ProbeSOAs # {} IN
        /\ serial_rc = "NEWER" <=>
               (found /\ (first_transfer \/ ProbeSerial > last_serial))
        /\ serial_rc = "UP_TO_DATE" <=>
               (found /\ ~first_transfer /\ ProbeSerial <= last_serial)
        /\ serial_rc = "ERROR" <=> ~found
        /\ serial_rc = "ERROR" => Failed
        /\ found => zone_serial = ProbeSerial

C8_Witness ==
    /\ ProbeChecked /\ serial_rc = "NEWER" /\ ~first_transfer
    /\ zone_serial > last_serial /\ last_serial > 0
    /\ Len(last_pkt.an) > 1 /\ ~ZoneSOA(last_pkt.an[1])

(* C9: when check_serial returns UP_TO_DATE the process exits with         *)
(* XFER_UPTODATE, having sent no AXFR query, not opened or truncated the   *)
(* zone file, and contacted no master after the one that answered.         *)
C9_UpToDateExits ==
    serial_rc = "UP_TO_DATE" =>
        /\ pc = "exit" /\ exit_code = XFER_UPTODATE
        /\ axfr_sent = 0
        /\ ~zone_file_open /\ zone_file = << >>
        /\ contacted = <<server>>

C9_Witness ==
    /\ serial_rc = "UP_TO_DATE" /\ exit_code = XFER_UPTODATE
    /\ zone_serial = last_serial /\ server > 1


(* the id of the query the next response answers *)
AskedId == IF pc = "probe" THEN probe_id ELSE query_id

(* the type of the query that last_pkt answers: the SOA response is the    *)
(* first packet of the connection                                          *)
AskedType == IF packets_received = 1 THEN "SOA" ELSE "AXFR"

HeaderOK(p, id) ==
    /\ p.limit > QHEADERSZ
    /\ p.qr
    /\ p.id = id
    /\ p.rcode = "NOERROR"

(* C11: when a response arrives whose length does not exceed QHEADERSZ,    *)
(* whose QR is 0, whose id differs from the id of the query sent or whose  *)
(* RCODE is not NOERROR, the process ends with a fatal error and the zone  *)
(* file receives no record of that packet.                                 *)
C11_HeaderGate ==
    [][(packets_received' = packets_received + 1
            /\ ~HeaderOK(last_pkt', AskedId))
        => (Failed' /\ zone_file' = zone_file /\ rr_count' = rr_count)]_vars

C11_Witness ==
    /\ Failed /\ errmsg = "bad response id"
    /\ packets_received > 2 /\ last_pkt.id # query_id
    /\ last_pkt.qr /\ last_pkt.limit > QHEADERSZ
    /\ zone_file # << >>

(* C12: a response with the TC bit set is rejected with a fatal error, on  *)
(* the SOA probe and on every packet of the AXFR stream.                   *)
C12_TruncatedRejected ==
    (packets_received > 0 /\ last_pkt.tc) => Failed

(* C13: a response holding a question record whose owner, type or class    *)
(* differs from the query (zone, SOA or AXFR, IN) is rejected.             *)
C13_QuestionMatchesQuery ==
    (packets_received > 0
        /\ \E i \in 1 .. Len(last_pkt.qd) :
               /\ Parses(last_pkt.qd[i])
               /\ ~QuestionMatches(last_pkt.qd[i], AskedType))
    => Failed

(* C14: a SOA response with QDCOUNT # 1 or ANCOUNT = 0, and an AXFR        *)
(* response with QDCOUNT > 1 or ANCOUNT = 0, end the process with a fatal  *)
(* error; the section count errors are raised for no other counts, so an   *)
(* AXFR packet without question is not refused for its counts.             *)
C14_SectionCounts ==
    LET qd == Len(last_pkt.qd)
        an == Len(last_pkt.an)
        bad == IF AskedType = "SOA" THEN qd # 1 \/ an = 0
               ELSE qd > 1 \/ an = 0
    IN packets_received > 0 =>
        /\ bad => Failed
        /\ errmsg \in {"question section count not equal to 1",
                       "query section count greater than 1",
                       "answer section is empty"} => bad

C14_Witness ==
    /\ pc = "axfr" /\ packets_received > 2
    /\ last_pkt.qd = << >> /\ Len(zone_file) = 2

(* C15: a stream holding a SOA of the zone between the opening and the     *)
(* closing SOA (SOA A SOA NS SOA) is not accepted: the process ends with   *)
(* XFER_FAIL.                                                              *)
C15_IntermediateSOARejected ==
    (pc = "exit" /\ Cardinality(Terminators) >= 2 /\ ZoneSOA(received[1]))
    => Failed


(* errors of the network after the connection was made *)
NetworkErrors == ReceiveErrors \cup {"network write failed"}

(* C18: the process ends with XFER_FAIL on a network failure only when no  *)
(* master is left to try: a failure against one master is followed by an   *)
(* attempt against the next.                                               *)
C18_FailAfterEveryMaster ==
    (Failed /\ errmsg \in NetworkErrors) => server >= NumServers


IOFailed == io_pc = "exit"

(* C16: read_socket and write_socket succeed only with exactly the         *)
(* requested number of bytes transferred; a system call failing with       *)
(* EINTR or EAGAIN is retried and does not end the process; a read that    *)
(* returns end of file ends it with the connection-closed error.           *)
C16_SocketLoops ==
    /\ io_pc = "received" => io_total = io_size
    /\ io_errno \in {"EINTR", "EAGAIN"} => ~IOFailed
    /\ io_eof =>
           (IOFailed /\ io_errmsg =
                "network read failed: Connection closed by peer")

(* C17: when SIGALRM arrives while receive_response is blocked in read,    *)
(* timeout_flag is set and the process ends with the timeout error; once   *)
(* the flag is set no response is handed on for processing.                *)
C17_AlarmIsTimeout ==
    /\ alarm_blocked =>
           /\ timeout_flag
           /\ IOFailed
           /\ io_errmsg = "timeout reading response, server unreachable?"
    /\ timeout_flag => io_pc # "received"


(* ------------------------------------------------------------------ *)
(* Radix tree: traversal and search                                    *)
(* ------------------------------------------------------------------ *)

(* the nodes that hold an element *)
ElementNodes == {p \in DOMAIN radtree.nodes : ~radtree.nodes[p].elem.null}

(* udb_radix_first, then udb_radix_next until it returns null; the walk *)
(* is cut off after one step more than there are nodes                  *)
RECURSIVE WalkFrom(_, _)
WalkFrom(n, fuel) ==
    IF n.null \/ fuel = 0 THEN <<>>
    ELSE <<n>> \o WalkFrom(udb_radix_next(radtree, n), fuel - 1)

Walk == WalkFrom(udb_radix_first(radtree),
                 Cardinality(DOMAIN radtree.nodes) + 1)

WalkKey(n) == radtree.nodes[n.path].elem.mystr

(* C19: after any inserts and deletes, udb_radix_first followed by      *)
(* udb_radix_next visits every node that holds an element exactly once, *)
(* in strictly increasing order of bstr_cmp (a shorter key before its   *)
(* extensions), whatever the order of insertion: the walk is the sorted *)
(* list of the live test elements, and next of the greatest is null.    *)
C19_OrderedWalk ==
    LET w == Walk
        all == SortKeys(DOMAIN strs)
    IN /\ Len(w) = Len(all)
       /\ Len(w) = Cardinality(ElementNodes)
       /\ {w[i].path : i \in 1 .. Len(w)} = ElementNodes
       /\ \A i \in 1 .. Len(w) :
             /\ w[i] = strs[all[i]]
             /\ WalkKey(w[i]) = all[i]
       /\ \A i, j \in 1 .. Len(w) :
             i < j => bstr_cmp(WalkKey(w[i]), WalkKey(w[j])) < 0
       /\ Len(w) > 0 => udb_radix_next(radtree, w[Len(w)]).null

(* three elements, one of them on an inner node above another, and a   *)
(* node without an element on the way                                   *)
C19_Witness ==
    /\ radtree.count >= 3
    /\ Len(Walk) >= 3
    /\ \E p \in ElementNodes : DOMAIN Kids(radtree.nodes[p]) # {}
    /\ \E p \in DOMAIN radtree.nodes \ ElementNodes :
          Cardinality(DOMAIN Kids(radtree.nodes[p])) >= 2

(* C20: after any inserts and deletes, udb_radix_search of a key that   *)
(* was inserted and not deleted since returns the node recorded for it, *)
(* whose elem is the element inserted under that key; for every other   *)
(* key it returns null.                                                 *)
C20_SearchRoundTrip ==
    \A key \in Keys :
        LET n == udb_radix_search(radtree, key)
        IN IF key \in DOMAIN strs
           THEN /\ ~n.null
                /\ n = strs[key]
                /\ radtree.nodes[n.path].elem = ElemPtr(key)
           ELSE n.null

(* a key of full length is found below a node that holds no element,   *)
(* for whose own path the search returns null                           *)
C20_Witness ==
    /\ \E key \in DOMAIN strs :
          /\ Len(key) = MaxKeyLen
          /\ ~udb_radix_search(radtree, key).null
    /\ \E p \in DOMAIN radtree.nodes \ ElementNodes :
          /\ p # <<>>
          /\ udb_radix_search(radtree, p).null

(* ------------------------------------------------------------------ *)
(* Radix tree: closest match                                           *)
(* ------------------------------------------------------------------ *)

(* the keys looked up by test_check_closest_match_inexact: also keys    *)
(* with an octet that no inserted key holds                             *)
Probes == SeqsUpTo(Bytes \cup {110}, MaxKeyLen)

(* the live keys that sort at or before k *)
KeysUpTo(k) == {j \in DOMAIN strs : bstr_cmp(j, k) <= 0}

Greatest(S) == CHOOSE j \in S : \A i \in S : bstr_cmp(i, j) <= 0

(* C21: after any inserts and deletes, udb_radix_find_less_equal of a   *)
(* key in the tree returns its node with exact set; of any other key it *)
(* returns, without exact, the node of the greatest key below it, whose *)
(* successor, if any, has a greater key; it returns null exactly when   *)
(* no key at or below it is in the tree.                                *)
C21_FindLessEqual ==
    \A k \in Probes :
        LET r == udb_radix_find_less_equal(radtree, k)
            nx == udb_radix_next(radtree, r.node)
        IN IF k \in DOMAIN strs
           THEN r.exact /\ r.node = strs[k]
           ELSE /\ ~r.exact
                /\ r.node.null <=> KeysUpTo(k) = {}
                /\ ~r.node.null =>
                      /\ r.node = strs[Greatest(KeysUpTo(k))]
                      /\ bstr_cmp(WalkKey(r.node), k) < 0
                      /\ ~nx.null => bstr_cmp(WalkKey(nx), k) > 0

(* an exact match, a closest match with a successor after the key, a   *)
(* closest match that is the last element, and a key below the first   *)
C21_Witness ==
    /\ radtree.count >= 2
    /\ \E k \in Probes : udb_radix_find_less_equal(radtree, k).exact
    /\ \E k \in Probes \ DOMAIN strs :
          LET r == udb_radix_find_less_equal(radtree, k)
          IN ~r.node.null /\ ~udb_radix_next(radtree, r.node).null
    /\ \E k \in Probes \ DOMAIN strs :
          LET r == udb_radix_find_less_equal(radtree, k)
          IN ~r.node.null /\ udb_radix_next(radtree, r.node).null
    /\ \E k \in Probes : udb_radix_find_less_equal(radtree, k).node.null

(* ------------------------------------------------------------------ *)
(* Radix tree: the invariants of test_check_invariants                 *)
(* ------------------------------------------------------------------ *)

(* the nodes test_check_invariants visits: the root and, from each     *)
(* visited node, the children in its populated slots                    *)
RECURSIVE Reach(_, _)
Reach(t, n) ==
    {n} \cup UNION {Reach(t, c.node.path) :
                      c \in {t.nodes[n].lookup.array[i] :
                               i \in {j \in 1 .. t.nodes[n].lookup.len :
                                   /\ ~t.nodes[n].lookup.array[j].node.null
                                   /\ t.nodes[n].lookup.array[j].node.path
                                          \in DOMAIN t.nodes}}}

Reachable ==
    IF radtree.root.null THEN {} ELSE Reach(radtree, radtree.root.path)

Populated(p) ==
    {i \in 1 .. radtree.nodes[p].lookup.len :
        ~radtree.nodes[p].lookup.array[i].node.null}

C24_StringBank ==
    \A p \in Reachable :
        LET lk == radtree.nodes[p].lookup
            m == udb_radarray_max_len(lk.array)
        IN /\ \A i \in 1 .. lk.len :
                 IF lk.array[i].node.null
                 THEN Len(lk.array[i].str) = 0
                 ELSE Len(lk.array[i].str) <= lk.str_cap
           /\ m <= lk.str_cap
           /\ m # lk.str_cap => m >= lk.str_cap \div 2

(* an array with an unpopulated slot between two populated slots whose *)
(* edges differ in length, the longer of two octets                     *)
C24_Witness ==
    \E p \in Reachable :
        LET lk == radtree.nodes[p].lookup
        IN /\ lk.str_cap >= 2
           /\ \E i \in 1 .. lk.len : lk.array[i].node.null
           /\ \E i, j \in Populated(p) :
                 Len(lk.array[i].str) < Len(lk.array[j].str)

(* C25: after every insert and delete, the child c in each populated    *)
(* slot i of each node n has c.parent = n and c.pidx = i; the root has  *)
(* a null parent and every node of the tree is reachable from the root. *)
C25_BackPointers ==
    /\ ~radtree.root.null => radtree.nodes[radtree.root.path].parent.null
    /\ DOMAIN radtree.nodes = Reachable
    /\ \A p \in Reachable : \A i \in Populated(p) :
          LET c == radtree.nodes[p].lookup.array[i].node.path
          IN /\ c \in DOMAIN radtree.nodes
             /\ radtree.nodes[c].parent = Ptr(p)
             /\ radtree.nodes[c].pidx = i - 1

(* a child in the last slot of a full-range array, below a node that   *)
(* is itself a child                                                    *)
C25_Witness ==
    \E p \in Reachable :
        /\ ~radtree.nodes[p].parent.null
        /\ \E i \in Populated(p) :
              /\ i = 26
              /\ radtree.nodes[
                    radtree.nodes[p].lookup.array[i].node.path].pidx = 25

(* C26: after create and after every insert and delete, count is the    *)
(* number of nodes reachable from the root that hold an element.        *)
C26_CountMatches ==
    radtree.count =
        Cardinality({p \in Reachable : ~radtree.nodes[p].elem.null})

(* two elements below a node without element, next to a third element  *)
C26_Witness ==
    /\ radtree.count = 3
    /\ \E p \in Reachable :
          /\ radtree.nodes[p].elem.null
          /\ ~radtree.nodes[p].parent.null
          /\ Cardinality(Populated(p)) = 2

(* test_check_list_keys: the nodes with the octets that lead to them,  *)
(* for each step the slot index + offset, then the edge string          *)
RECURSIVE ListKeys(_, _, _)
ListKeys(t, n, fullkey) ==
    {<<n, fullkey>>} \cup
    UNION {ListKeys(t, t.nodes[n].lookup.array[i].node.path,
                    fullkey \o <<i - 1 + t.nodes[n].offset>>
                            \o t.nodes[n].lookup.array[i].str) :
           i \in {j \in 1 .. t.nodes[n].lookup.len :
                     ~t.nodes[n].lookup.array[j].node.null}}

(* C27: after every insert and delete, for every reachable node that    *)
(* holds an element the octets along the path from the root (slot index *)
(* + offset, then the edge string, for each step) are the key the       *)
(* element was inserted under, and the element's mynode is that node.   *)
C27_PathIsKey ==
    ~radtree.root.null =>
        \A nk \in ListKeys(radtree, radtree.root.path, <<>>) :
            LET elem == radtree.nodes[nk[1]].elem
            IN ~elem.null =>
                 /\ elem.mystr = nk[2]
                 /\ nk[2] \in DOMAIN strs
                 /\ strs[nk[2]] = Ptr(nk[1])

(* an element two steps below the root, reached over an edge string and *)
(* through a slot that is not the first of its array                    *)
C27_Witness ==
    \E p \in Reachable :
        /\ ~radtree.nodes[p].elem.null
        /\ ~radtree.nodes[p].parent.null
        /\ ~radtree.nodes[radtree.nodes[p].parent.path].parent.null
        /\ radtree.nodes[p].pidx > 0
        /\ Len(p) = MaxKeyLen

(* ------------------------------------------------------------------ *)
(* Radix tree: out of space                                            *)
(* ------------------------------------------------------------------ *)

(* the tree as seen from the root: count, root and the reachable nodes *)
TreeView(t) ==
    [count |-> t.count, root |-> t.root,
     nodes |-> IF t.root.null THEN <<>>
               ELSE [p \in Reach(t, t.root.path) |-> t.nodes[p]]]

NoSize == [tree |-> 0, node |-> 0, array |-> 0, sel |-> 0, str |-> 0,
           elem |-> 0]

AddSize(a, b) == [k \in DOMAIN a |-> a[k] + b[k]]

(* sizeof(struct udb_radnode_d) + size_of_lookup_ext(n): the node and   *)
(* its array of capacity selectors and capacity strings of str_cap      *)
NodeSize(nd) ==
    [NoSize EXCEPT !.node = 1, !.array = 1,
                   !.sel = nd.lookup.capacity,
                   !.str = nd.lookup.capacity * nd.lookup.str_cap]

(* udb_radtree_size_node: the size of the node and, for the slots from  *)
(* i up, of the nodes below                                             *)
RECURSIVE udb_radtree_size_node(_, _)
RECURSIVE udb_radtree_size_slots(_, _, _)
udb_radtree_size_node(t, n) ==
    IF n.null THEN NoSize
    ELSE AddSize(NodeSize(t.nodes[n.path]),
                 udb_radtree_size_slots(t, t.nodes[n.path].lookup, 1))

udb_radtree_size_slots(t, lookup, i) ==
    IF i > lookup.len THEN NoSize
    ELSE AddSize(udb_radtree_size_node(t, lookup.array[i].node),
                 udb_radtree_size_slots(t, lookup, i + 1))

(* udb_radtree_size: the tree object and the nodes below the root *)
udb_radtree_size(t) ==
    AddSize([NoSize EXCEPT !.tree = 1], udb_radtree_size_node(t, t.root))

(* test_checks: the size of the tree and of count test elements *)
mem == AddSize(udb_radtree_size(radtree),
               [NoSize EXCEPT !.elem = radtree.count])

RECURSIVE SumSizes(_, _)
SumSizes(nodes, S) ==
    IF S = {} THEN NoSize
    ELSE LET p == CHOOSE q \in S : TRUE
         IN AddSize(NodeSize(nodes[p]), SumSizes(nodes, S \ {p}))

(* the allocated-data counter of the arena: the tree object, every node *)
(* that is allocated with its array, and every test element, the one of *)
(* a failed insert included                                             *)
stat_data ==
    AddSize(SumSizes(radtree.nodes, DOMAIN radtree.nodes),
            [NoSize EXCEPT !.tree = 1,
                           !.elem = Cardinality(DOMAIN strs)
                               + IF failed_assert = "" THEN 0 ELSE 1])

NodeFields == {"parent", "pidx", "offset", "elem", "lookup"}

(* the writes that are left to make tree t2 of the tree t in memory:   *)
(* the fields of the nodes of both that differ, the root and the count. *)
(* A new node is filled in before it is linked and a node that goes is  *)
(* freed after it is unlinked; a selector array is replaced by one      *)
(* write of the lookup pointer.                                         *)
Writes(t, t2) ==
    {w \in [obj : {"node"},
            node : DOMAIN t.nodes \cap DOMAIN t2.nodes,
            field : NodeFields] :
        t.nodes[w.node][w.field] # t2.nodes[w.node][w.field]}
      \cup {w \in [obj : {"tree"}, node : {<<>>}, field : {"root", "count"}] :
               t[w.field] # t2[w.field]}

(* a node of both trees is in another slot or below another node in t2 *)
Moved(t, t2) ==
    \E p \in DOMAIN t.nodes \cap DOMAIN t2.nodes :
        \/ t.nodes[p].pidx # t2.nodes[p].pidx
        \/ t.nodes[p].parent # t2.nodes[p].parent

(* one write: the field takes the value it has in t2 *)
ApplyWrite(t, t2, w) ==
    IF w.obj = "tree"
    THEN [t EXCEPT ![w.field] = t2[w.field]]
    ELSE [t EXCEPT !.nodes[w.node][w.field] = t2.nodes[w.node][w.field]]

(* the new nodes of t2, filled in and not yet linked *)
Prepared(t, t2) ==
    [t EXCEPT !.nodes = [p \in DOMAIN t.nodes \cup DOMAIN t2.nodes |->
                            IF p \in DOMAIN t.nodes THEN t.nodes[p]
                            ELSE t2.nodes[p]]]

(* what a reader that starts at the root finds: in every reachable     *)
(* node the array is within its bounds, the child in a populated slot   *)
(* points back to the node and to its slot, and the octets that lead to *)
(* an element are the key of the element                                *)
ReaderView ==
    /\ \A p \in Reachable :
          /\ radtree.nodes[p].lookup.len <= radtree.nodes[p].lookup.capacity
          /\ radtree.nodes[p].offset + radtree.nodes[p].lookup.len <= 256
          /\ \A i \in Populated(p) :
                LET c == radtree.nodes[p].lookup.array[i].node.path
                IN /\ radtree.nodes[c].parent = Ptr(p)
                   /\ radtree.nodes[c].pidx = i - 1
    /\ ~radtree.root.null =>
          /\ radtree.nodes[radtree.root.path].parent.null
          /\ \A nk \in ListKeys(radtree, radtree.root.path, <<>>) :
                ~radtree.nodes[nk[1]].elem.null =>
                    radtree.nodes[nk[1]].elem.mystr = nk[2]

(* udb_radix_insert begins: the new nodes are allocated and filled in *)
WriterInsert(key) ==
    /\ writer.op = ""
    /\ radtree.count < MaxKeys
    /\ udb_radix_search(radtree, key).null
    /\ LET r == udb_radix_insert(radtree, key, ElemPtr(key))
       IN /\ r.ok
          /\ radtree' = Prepared(radtree, r.rt)
          /\ writer' = [op |-> "insert", key |-> key, to |-> r.rt,
                        moved |-> Moved(radtree, r.rt), bad |-> FALSE]
    /\ UNCHANGED <<xfervars, sockvars, extvars, strs, failed_assert>>

(* udb_radix_delete begins, for the key that test_del_a_key walks to *)
WriterDelete(x) ==
    /\ writer.op = ""
    /\ x < radtree.count
    /\ LET n == WalkTo(radtree, udb_radix_first(radtree), x)
           t2 == udb_radix_delete(radtree, n.path)
       IN /\ ~n.null
          /\ writer' = [op |-> "delete",
                        key |-> radtree.nodes[n.path].elem.mystr,
                        to |-> t2,
                        moved |-> Moved(radtree, t2), bad |-> FALSE]
    /\ UNCHANGED <<xfervars, sockvars, extvars, radtree, strs, failed_assert>>

(* one of the writes that are left is made; bad records that a reader  *)
(* could have started on a tree that is not as ReaderView says          *)
WriterStep(w) ==
    /\ writer.op # ""
    /\ w \in Writes(radtree, writer.to)
    /\ radtree' = ApplyWrite(radtree, writer.to, w)
    /\ writer' = [writer EXCEPT !.bad = @ \/ ~ReaderView]
    /\ UNCHANGED <<xfervars, sockvars, extvars, strs, failed_assert>>

(* the last write is made: the nodes that went are freed and the call   *)
(* returns to the test, which records or frees the element              *)
WriterEnd ==
    /\ writer.op # ""
    /\ Writes(radtree, writer.to) = {}
    /\ radtree' = writer.to
    /\ strs' = IF writer.op = "insert"
               THEN (writer.key :> udb_radix_search(writer.to, writer.key))
                        @@ strs
               ELSE Without(strs, writer.key)
    /\ writer' = NoWriter
    /\ UNCHANGED <<xfervars, sockvars, extvars, failed_assert>>

AllWrites ==
    [obj : {"node"}, node : Keys, field : NodeFields]
      \cup [obj : {"tree"}, node : {<<>>}, field : {"root", "count"}]

NextWriter ==
    \/ \E key \in Keys : WriterInsert(key)
    \/ \E x \in 0 .. MaxKeys - 1 : WriterDelete(x)
    \/ \E w \in AllWrites : WriterStep(w)
    \/ WriterEnd

SpecWriter == InitTrieTest /\ [][NextWriter]_vars

WriterNoCleanOrder ==
    (writer.op # "" /\ writer.moved /\ Writes(radtree, writer.to) = {})
        => writer.bad

(* ------------------------------------------------------------------ *)
(* TSIG: signing and verifying                                         *)
(* ------------------------------------------------------------------ *)

InitSign == Init /\ ~tsig_key /\ first_transfer

SpecSign == InitSign /\ [][NextSign]_vars

(* the response went through check_response_tsig under a key *)
SignedChecked ==
    /\ signing.tsig # << >>
    /\ signing.reply # << >>
    /\ signing.pc \in {"idle", "done", "exit"}

(* C31: a message signed by init_query, prepare, update, sign and       *)
(* append_rr and verified unmodified under the same key and algorithm   *)
(* by find_rr, update up to the position of the TSIG RR and verify      *)
(* yields status OK: the query at the peer, the response at the client. *)
C31_SignThenVerify ==
    signing.tsig # << >> =>
        /\ signing.pc = "replied" => signing.peer = "OK"
        /\ (signing.pc = "replied" /\ signing.altered = "") =>
               VerifyOctets(signing.tsig[1], signing.reply[1]).status = "OK"
        /\ (SignedChecked /\ signing.altered = "") =>
               /\ signing.tsig[1].status = "OK"
               /\ signing.errmsg = ""
               /\ signing.pc # "exit"

(* the SOA and the AXFR response, signed by the peer, were both accepted *)
C31_Witness ==
    /\ signing.pc = "done"
    /\ signing.tsig # << >>
    /\ signing.altered = ""
    /\ signing.tsig[1].status = "OK"
    /\ signing.tsig[1].response_count = 1

C33_QueryConstruction ==
    signing.pc = "sent" =>
        LET q == signing.query[1] IN
        /\ q.id \in 0 .. 65535
        /\ q.aa /\ ~q.qr /\ q.flags = {}
        /\ q.opcode = "QUERY" /\ q.rcode = "NOERROR"
        /\ q.qdcount = 1 /\ q.ancount = 0 /\ q.nscount = 0
        /\ q.qd = <<[owner |-> Zone, type |-> signing.type, klass |-> "IN"]>>
        /\ IF signing.tsig = << >>
           THEN q.arcount = 0 /\ q.tsig = << >>
           ELSE LET rec == signing.tsig[1]
                    plain == [q EXCEPT !.tsig = << >>, !.arcount = 0,
                                       !.limit = q.tsig[1].position]
                IN /\ q.arcount = 1
                   /\ Len(q.tsig) = 1
                   /\ q.limit = q.tsig[1].position + TsigRRSize
                   /\ [i \in 1 .. Len(rec.calls) |-> rec.calls[i].op] =
                          <<"init_query", "prepare", "update", "sign",
                            "prepare">>
                   /\ rec.calls[3].len = q.tsig[1].position
                   /\ q.tsig[1].original_id = q.id
                   /\ q.tsig[1].mac =
                          HmacFinal(rec.key,
                                    [prior |-> << >>, fed |-> <<plain>>],
                                    TsigVariables(rec.key.name,
                                                  rec.key.algorithm,
                                                  Now, "NOERROR"))

(* the signed AXFR query is sent, its id cut to 16 bits *)
C33_Witness ==
    /\ signing.pc = "sent"
    /\ signing.type = "AXFR"
    /\ signing.tsig # << >>
    /\ signing.query[1].id = 65535
    /\ signing.query[1].arcount = 1

(* ------------------------------------------------------------------ *)
(* Radix tree: what a delete leaves alone                              *)
(* ------------------------------------------------------------------ *)

(* the element a search for key finds in tree t, if any *)
Found(t, key) ==
    LET n == udb_radix_search(t, key)
    IN IF n.null THEN [node |-> Null, elem |-> NoElem]
       ELSE [node |-> n, elem |-> t.nodes[n.path].elem]

C35_BackwardMirrorsForward ==
    LET w == Walk
        all == SortKeys(DOMAIN strs)
        num == Len(all)
    IN /\ Len(w) = num
       /\ num = 0 => /\ udb_radix_first(radtree).null
                     /\ udb_radix_last(radtree).null
       /\ num > 0 => /\ udb_radix_first(radtree) = strs[all[1]]
                     /\ udb_radix_last(radtree) = strs[all[num]]
                     /\ udb_radix_last(radtree) = w[num]
       /\ \A idx \in 1 .. num :
             LET n == strs[all[idx]]
             IN /\ udb_radix_prev(radtree, n)
                     = IF idx = 1 THEN Null ELSE strs[all[idx - 1]]
                /\ idx < num =>
                     udb_radix_prev(radtree, udb_radix_next(radtree, n)) = n
                /\ idx > 1 =>
                     udb_radix_next(radtree, udb_radix_prev(radtree, n)) = n

(* three elements where the one before a node lies in another branch:  *)
(* the parent of the node holds no element and the search goes further  *)
(* up, and an element on an inner node precedes the ones below it       *)
C35_Witness ==
    /\ failed_assert = ""
    /\ radtree.count >= 3
    /\ \E p \in ElementNodes :
          /\ ~radtree.nodes[p].parent.null
          /\ radtree.nodes[radtree.nodes[p].parent.path].elem.null
          /\ ~radtree.nodes[radtree.nodes[p].parent.path].parent.null
          /\ ~udb_radix_prev(radtree, Ptr(p)).null
          /\ LET up == radtree.nodes[p].parent.path
             IN radix_last_in_slots(radtree, up,
                    {b \in DOMAIN Kids(radtree.nodes[up]) :
                         b < radtree.nodes[up].offset
                                 + radtree.nodes[p].pidx}).null
    /\ \E p \in ElementNodes :
          /\ DOMAIN Kids(radtree.nodes[p]) # {}
          /\ ~udb_radix_next(radtree, Ptr(p)).null
          /\ udb_radix_prev(radtree, udb_radix_next(radtree, Ptr(p))) = Ptr(p)

----------------------------------------------------------------------------
(* The driver over several addresses: an AXFR attempt that ends because *)
(* a record does not print is followed by the next address              *)

RetryRRs ==
    {RR(Zone, "SOA", "IN", 1), RR(Zone, "A", "IN", 0),
     RR(Zone, "UNPRINTABLE", "IN", 0)}

RetryPackets(id, n) ==
    {WellFormed(id, <<Question("AXFR")>>, an, ts) :
        an \in UNION {[1 .. k -> RetryRRs] :
                         k \in 1 .. Lowest({2, MaxRRs - Len(received)})},
        ts \in GoodTsigRRs(n) \cup (IF tsig_key THEN {SignedRR(NoMac)} ELSE {})}
    \cup {Packet(PacketLimit, TRUE, FALSE, id, "SERVFAIL",
                 <<Question("AXFR")>>, <<RR(Zone, "A", "IN", 0)>>, NoTsigRR)}

InitRetry == Init /\ first_transfer

NextRetry ==
    \/ ConnectFail
    \/ NoServerLeft
    \/ /\ pc = "connect"
       /\ SendProbe(1, TRUE)
    \/ /\ pc \in {"probe", "axfr"}
       /\ ReceiveFail("network read failed: Connection closed by peer")
    \/ /\ pc = "probe"
       /\ \E p \in PlainProbePackets(probe_id, packets_received + 1) :
             ProbeResponse(p)
    \/ /\ pc = "axfr"
       /\ Len(received) < MaxRRs
       /\ \E p \in RetryPackets(query_id, packets_received + 1) :
             AxfrResponse(p)

SpecRetry == InitRetry /\ [][NextRetry]_vars

(* the record that opens an answer section is a SOA of class IN *)
LeadingSOA(p) ==
    /\ p.an # << >>
    /\ p.an[1].type = "SOA"
    /\ p.an[1].klass = "IN"

(* C37: the state of the stream is fresh for every AXFR attempt, also   *)
(* for one that follows an attempt that ended without ending the        *)
(* process: before the first response of an attempt rr_count is 0 and   *)
(* done is not set; a first response that passes the checks and opens   *)
(* with a SOA has that SOA written as the first record of the zone      *)
(* file, and one that opens with another record ends in XFER_FAIL.      *)
C37_FreshStreamState ==
    /\ []((pc = "axfr" /\ q_responses = 0) => (rr_count = 0 /\ ~done))
    /\ [][\A p \in RetryPackets(query_id, packets_received + 1) :
            (AxfrResponse(p) /\ q_responses = 0 /\ p.an # << >>
                /\ Parses(p.an[1]))
            => IF LeadingSOA(p)
               THEN exit_code' = XFER_FAIL
                    \/ (zone_file' # << >> /\ zone_file'[1] = p.an[1])
               ELSE exit_code' = XFER_FAIL]_vars

(* C38: the process exits with XFER_SUCCESS only from an AXFR attempt   *)
(* for which check_serial returned NEWER, whose opening SOA was written *)
(* to the zone file, whose closing SOA set done, and whose packets all  *)
(* passed the header, count and TSIG checks; a packet that fails a      *)
(* check ends the process with XFER_FAIL, which is final.               *)
C38_SuccessOnlyAfterAllChecks ==
    [][/\ (exit_code' = XFER_SUCCESS /\ exit_code # XFER_SUCCESS) =>
            /\ pc = "axfr"
            /\ serial_rc = "NEWER"
            /\ done'
            /\ zone_file' # << >>
            /\ zone_file'[1].type = "SOA"
            /\ zone_file'[1].klass = "IN"
            /\ AxfrHeaderError(last_pkt', query_id) = ""
            /\ tsig_verdict' \in {"none", "accepted"}
       /\ \A p \in RetryPackets(query_id, packets_received + 1) :
            (/\ AxfrResponse(p)
             /\ \/ AxfrHeaderError(p, query_id) # ""
                \/ check_response_tsig(p, tsig, tsig_key,
                                       packets_received + 1).err # ""
                \/ parse_response(p, rr_count, zone_file).err # "")
            => exit_code' = XFER_FAIL
       /\ exit_code = XFER_FAIL => exit_code' = XFER_FAIL]_vars

(* C39: the records that an attempt wrote to the zone file are gone     *)
(* when the attempt did not end in XFER_SUCCESS: when the process has   *)
(* ended with XFER_FAIL the zone file holds no record.                  *)
C39_FailLeavesNoRecords ==
    exit_code = XFER_FAIL => zone_file = << >>

----------------------------------------------------------------------------
(* nsd-notify *)

SpecNotify == InitSign /\ [][NextNotify]_vars

(* C36: notify_host sends the NOTIFY and waits up to 5 seconds; after  *)
(* every timeout it sends the same packet again, however many timeouts  *)
(* there were: while it waits there was one send more than timeouts.    *)
(* The sending ends only when select reports the socket readable or     *)
(* when sendto or select fails. After the socket became readable there  *)
(* is no further send and exactly one recvfrom, also when the reply is  *)
(* a bad one, which only leaves a warning. When notify_host has         *)
(* returned the socket was closed exactly once, on every path.          *)
C36_NotifyHost ==
    /\ [](/\ notify.pc = "send" =>
               /\ notify.sends = notify.timeouts
               /\ ~notify.readable
               /\ notify.reads = 0
          /\ notify.pc = "select" =>
               /\ notify.sends = notify.timeouts + 1
               /\ notify.tv = timeout_retry
               /\ ~notify.readable
               /\ notify.reads = 0
          /\ notify.pc = "recv" =>
               /\ notify.readable
               /\ notify.sends = notify.timeouts + 1
               /\ notify.reads = 0
          /\ notify.sent \subseteq {Datagram(NotifyQuery)}
          /\ (notify.sends > 0 => notify.sent = {Datagram(NotifyQuery)})
          /\ (notify.udp_s = "open"
                 <=> notify.pc \in {"send", "select", "recv"})
          /\ notify.closes = IF notify.udp_s = "closed" THEN 1 ELSE 0
          /\ notify.udp_s = "closed" =>
               /\ notify.reads = IF notify.readable THEN 1 ELSE 0
               /\ (notify.readable => notify.sends = notify.timeouts + 1)
               /\ (~notify.readable =>
                     notify.warning \in {"send failed",
                                         "error waiting for reply"}))
    /\ [][/\ \A a \in NotifyReplies :
              NotifyRecv(a) =>
                 /\ notify'.sends = notify.sends
                 /\ notify'.reads = 1
                 /\ notify'.closes = 1
                 /\ notify'.pc = "socket"
                 /\ notify'.host = notify.host + 1
          /\ NotifySelect(0) =>
                 /\ notify'.pc = "send"
                 /\ notify'.udp_s = "open"
          /\ (notify.readable /\ notify.pc # "socket") =>
                 /\ notify'.sends = notify.sends
                 /\ notify'.sent = notify.sent]_vars

(* the last host was sent the packet after each of MaxTimeouts       *)
(* timeouts and then answered with a reply that does not acknowledge;   *)
(* the first host ended with an error of sendto or select               *)
C36_Witness ==
    /\ notify.pc = "socket"
    /\ notify.host = NumHosts + 1
    /\ notify.timeouts = MaxTimeouts
    /\ notify.sends = MaxTimeouts + 1
    /\ notify.readable
    /\ notify.reads = 1
    /\ notify.closes = 1
    /\ notify.warning = "bad reply"

----------------------------------------------------------------------------
(* nsd: start-up *)

SpecNsd == InitSign /\ [][NextNsd]_vars

(* C40: no signal is lost during start-up. A signal that arrives after  *)
(* its handler was installed sets hints and clears none, and at most    *)
(* one: in the main server SIGHUP sets reload, SIGINT quit, SIGTERM     *)
(* shutdown and SIGCHLD child, in a child server SIGHUP, SIGINT and     *)
(* SIGTERM set quit. Once a handler is installed no step of main takes  *)
(* a hint back, so every hint set by a signal is still set when the     *)
(* server loop starts.                                                  *)
C40_NoSignalLost ==
    [][/\ \A sig \in nsd.handlers :
            NsdSignal(sig) =>
               /\ nsd.hints \subseteq nsd'.hints
               /\ Cardinality(nsd'.hints \ nsd.hints) <= 1
               /\ nsd.server_kind = "MAIN" =>
                     /\ sig = "SIGHUP" => "reload" \in nsd'.hints
                     /\ sig = "SIGINT" => "quit" \in nsd'.hints
                     /\ sig = "SIGTERM" => "shutdown" \in nsd'.hints
                     /\ sig = "SIGCHLD" => "child" \in nsd'.hints
               /\ nsd.server_kind # "MAIN" =>
                     (sig \in {"SIGHUP", "SIGINT", "SIGTERM"}
                         => "quit" \in nsd'.hints)
       /\ nsd.handlers # {} => nsd.hints \subseteq nsd'.hints]_vars

====
